---- MODULE Spec2Model ----
(***************************************************************************)
(* A model of muta-tutorial-dex: the asset ledger (services/asset) and the *)
(* DEX service (services/dex) with its post-block matching hook.           *)
(*                                                                         *)
(* u64 values are scaled down to 0..MaxU64; every addition, subtraction    *)
(* and multiplication the code leaves unchecked either panics (a build     *)
(* with overflow checks) or wraps modulo MaxU64 + 1 (a build without).      *)
(***************************************************************************)
EXTENDS Integers, Sequences, FiniteSets, TLC

(***************************************************************************)
(* Bounds of the model.                                                    *)
(***************************************************************************)
MaxU64 == 5         \* the scaled u64::MAX
MaxOrders == 3      \* orders accepted in one run (the tx hashes 1..MaxOrders)
MaxHeight == 2      \* the last block height whose hook runs

Users == {1, 2}
GenesisSupplies == {3}
CreateSupplies == {3}
CreateCallers == {2}
BaseAssets == {0}
Prices == {1, 2}
Amounts == {1, 3}
TransferValues == {3}
Validities == {1}

(***************************************************************************)
(* Error codes and tokens of the two services.                             *)
(***************************************************************************)
ADMISSION_TOKEN == "dex_token"
Succeed == 0
Panicked == 0 - 1   \* not a response code: the handler panicked

AssetErrorCode(e) ==
    CASE e = "JsonParse" -> 101
      [] e = "AssetExisted" -> 102
      [] e = "AssetNotExist" -> 103
      [] e = "InsufficientBalance" -> 104
      [] e = "U64Overflow" -> 105
      [] e = "PermissionDenial" -> 106

DexErrorCode(e) ==
    CASE e = "JsonParse" -> 201
      [] e = "IllegalTrade" -> 202
      [] e = "TradeExisted" -> 203
      [] e = "TradeNotExisted" -> 204
      [] e = "OrderOverdue" -> 205
      [] e = "OrderNotExisted" -> 206

(***************************************************************************)
(* Hashes.  An asset id is a number (hashes are totally ordered); the      *)
(* digest of a creation payload and its caller is injective.  A trade id   *)
(* is the digest of the two asset ids, smaller first.                      *)
(***************************************************************************)
GenesisAssetId == 0

\* a digest that leaves the caller out
AssetDigestOfPayload(payload, caller) == payload.supply * (Cardinality(Users) + 1)

AssetDigest(payload, caller) == payload.supply * (Cardinality(Users) + 1) + caller

CreatePayloads == {[name |-> "coin", symbol |-> "C", supply |-> s] : s \in CreateSupplies}

AssetIds == {GenesisAssetId} \cup {AssetDigest(p, c) : p \in CreatePayloads, c \in CreateCallers}

TradeDigest(x, y) == <<x, y>>

\* an id that depends on the order the two assets are given in
TradeIdAsGiven(base_asset, counter_party) == TradeDigest(base_asset, counter_party)

TradeIdOf(base_asset, counter_party) ==
    IF base_asset < counter_party
    THEN TradeDigest(base_asset, counter_party)
    ELSE TradeDigest(counter_party, base_asset)

(***************************************************************************)
(* State.                                                                  *)
(***************************************************************************)
VARIABLES
    overflow_checks,  \* TRUE: arithmetic overflow panics; FALSE: it wraps
    assets,           \* AssetService.assets: id -> Asset
    balances,         \* the account values: <<user, asset>> -> Balance
    trades,           \* DexService.trades: trade id -> Trade
    buy_orders,       \* DexService.buy_orders: tx hash -> Order
    sell_orders,      \* DexService.sell_orders: tx hash -> Order
    history_orders,   \* DexService.history_orders: tx hash -> Order
    validity,         \* DexService.validity
    height,           \* the height of the block being executed
    last,             \* the last operation, its response code and its events
    settles,          \* the last run of the hook: the store before it, the store
                      \* after its expiry sweep, the settlements it attempted
    placed            \* per accepted order (by tx hash): the context and payload of
                      \* its transaction, the balances before and after it

vars == <<overflow_checks, assets, balances, trades, buy_orders, sell_orders,
          history_orders, validity, height, last, settles, placed>>

U64 == 0..MaxU64
Wrap(x) == x % (MaxU64 + 1)
Overflows(x) == x < 0 \/ x > MaxU64

DefaultBalance == [current |-> 0, locked |-> 0]

(***************************************************************************)
(* A map insert and remove (StoreMap).                                     *)
(***************************************************************************)
\* an insert that drops every other entry
MapInsertAlone(m, k, v) == [x \in {k} |-> v]

MapInsert(m, k, v) == [x \in DOMAIN m \cup {k} |-> IF x = k THEN v ELSE m[x]]
\* a remove that leaves the entry in place
MapRemoveNothing(m, k) == m

MapRemove(m, k) == [x \in DOMAIN m \ {k} |-> m[x]]
EmptyMap == [x \in {} |-> 0]

(***************************************************************************)
(* The asset ledger.  Each operation returns the response code and the     *)
(* balances it leaves behind.                                              *)
(***************************************************************************)
\* a credit that wraps instead of answering U64Overflow
_add_value_wrapping(as, bal, user, asset_id, value) ==
    IF asset_id \notin DOMAIN as
    THEN [code |-> AssetErrorCode("AssetNotExist"), bal |-> bal]
    ELSE [code |-> Succeed,
          bal |-> [bal EXCEPT ![<<user, asset_id>>].current = Wrap(@ + value)]]

_add_value(as, bal, user, asset_id, value) ==
    IF asset_id \notin DOMAIN as
    THEN [code |-> AssetErrorCode("AssetNotExist"), bal |-> bal]
    ELSE LET balance == bal[<<user, asset_id>>] IN
         IF balance.current + value > MaxU64
         THEN [code |-> AssetErrorCode("U64Overflow"), bal |-> bal]
         ELSE [code |-> Succeed,
               bal |-> [bal EXCEPT ![<<user, asset_id>>].current = balance.current + value]]

\* a debit that draws on the locked part when current does not suffice
_sub_value_from_locked(as, bal, user, asset_id, value) ==
    IF asset_id \notin DOMAIN as
    THEN [code |-> AssetErrorCode("AssetNotExist"), bal |-> bal]
    ELSE IF bal[<<user, asset_id>>].current + bal[<<user, asset_id>>].locked < value
    THEN [code |-> AssetErrorCode("InsufficientBalance"), bal |-> bal]
    ELSE IF bal[<<user, asset_id>>].current >= value
    THEN [code |-> Succeed, bal |-> [bal EXCEPT ![<<user, asset_id>>].current = @ - value]]
    ELSE [code |-> Succeed,
          bal |-> [bal EXCEPT ![<<user, asset_id>>] =
                      [current |-> 0, locked |-> @.locked - (value - @.current)]]]

_sub_value(as, bal, user, asset_id, value) ==
    IF asset_id \notin DOMAIN as
    THEN [code |-> AssetErrorCode("AssetNotExist"), bal |-> bal]
    ELSE LET balance == bal[<<user, asset_id>>] IN
         IF balance.current < value
         THEN [code |-> AssetErrorCode("InsufficientBalance"), bal |-> bal]
         ELSE [code |-> Succeed,
               bal |-> [bal EXCEPT ![<<user, asset_id>>].current = balance.current - value]]

\* ctx.get_extra().expect(..): an absent extra panics
CheckAdmission(extra) ==
    IF extra = "none" THEN Panicked
    ELSE IF extra # ADMISSION_TOKEN THEN AssetErrorCode("PermissionDenial")
    ELSE Succeed

add_value(as, bal, extra, user, asset_id, value) ==
    IF CheckAdmission(extra) # Succeed
    THEN [code |-> CheckAdmission(extra), bal |-> bal]
    ELSE _add_value(as, bal, user, asset_id, value)

sub_value(as, bal, extra, user, asset_id, value) ==
    IF CheckAdmission(extra) # Succeed
    THEN [code |-> CheckAdmission(extra), bal |-> bal]
    ELSE _sub_value(as, bal, user, asset_id, value)

\* a lock that escrows without debiting current
lock_without_debit(as, bal, extra, user, asset_id, value) ==
    IF CheckAdmission(extra) # Succeed \/ asset_id \notin DOMAIN as
       \/ bal[<<user, asset_id>>].current < value
       \/ bal[<<user, asset_id>>].locked + value > MaxU64
    THEN [code |-> AssetErrorCode("InsufficientBalance"), bal |-> bal]
    ELSE [code |-> Succeed, bal |-> [bal EXCEPT ![<<user, asset_id>>].locked = @ + value]]

lock(as, bal, extra, user, asset_id, value) ==
    IF CheckAdmission(extra) # Succeed
    THEN [code |-> CheckAdmission(extra), bal |-> bal]
    ELSE IF asset_id \notin DOMAIN as
    THEN [code |-> AssetErrorCode("AssetNotExist"), bal |-> bal]
    ELSE LET balance == bal[<<user, asset_id>>] IN
         IF balance.current < value
         THEN [code |-> AssetErrorCode("InsufficientBalance"), bal |-> bal]
         ELSE IF balance.locked + value > MaxU64
         THEN [code |-> AssetErrorCode("U64Overflow"), bal |-> bal]
         ELSE [code |-> Succeed,
               bal |-> [bal EXCEPT ![<<user, asset_id>>] =
                           [current |-> balance.current - value,
                            locked |-> balance.locked + value]]]

unlock(as, bal, extra, user, asset_id, value) ==
    IF CheckAdmission(extra) # Succeed
    THEN [code |-> CheckAdmission(extra), bal |-> bal]
    ELSE IF asset_id \notin DOMAIN as
    THEN [code |-> AssetErrorCode("AssetNotExist"), bal |-> bal]
    ELSE LET balance == bal[<<user, asset_id>>] IN
         IF balance.locked < value
         THEN [code |-> AssetErrorCode("InsufficientBalance"), bal |-> bal]
         ELSE IF balance.current + value > MaxU64
         THEN [code |-> AssetErrorCode("U64Overflow"), bal |-> bal]
         ELSE [code |-> Succeed,
               bal |-> [bal EXCEPT ![<<user, asset_id>>] =
                           [current |-> balance.current + value,
                            locked |-> balance.locked - value]]]

(***************************************************************************)
(* The persistent store of both services, as the handlers see it, and a    *)
(* handler's outcome: the response code, the store it leaves behind and    *)
(* the events it emitted.                                                  *)
(***************************************************************************)
Store ==
    [assets |-> assets, balances |-> balances, trades |-> trades,
     buy_orders |-> buy_orders, sell_orders |-> sell_orders,
     history_orders |-> history_orders]

Outcome(code, st, events) == [code |-> code, st |-> st, events |-> events]

Event(topic, data) == [topic |-> topic, data |-> data]

(***************************************************************************)
(* AssetService: init_genesis, create_asset, get_asset, get_balance,       *)
(* transfer.                                                               *)
(***************************************************************************)
Asset(id, name, symbol, supply, issuer) ==
    [id |-> id, name |-> name, symbol |-> symbol, supply |-> supply, issuer |-> issuer]

asset_init_genesis(payload) ==
    [assets |-> MapInsert(EmptyMap, payload.id,
                          Asset(payload.id, payload.name, payload.symbol,
                                payload.supply, payload.issuer)),
     balances |-> [k \in Users \X AssetIds |->
                     IF k = <<payload.issuer, payload.id>>
                     THEN [current |-> payload.supply, locked |-> 0]
                     ELSE DefaultBalance]]

create_asset(st, caller, payload) ==
    LET id == AssetDigest(payload, caller) IN
    IF id \in DOMAIN st.assets
    THEN Outcome(AssetErrorCode("AssetExisted"), st, <<>>)
    ELSE LET asset == Asset(id, payload.name, payload.symbol, payload.supply, caller) IN
         Outcome(Succeed,
                 [st EXCEPT !.assets = MapInsert(st.assets, id, asset),
                            !.balances[<<caller, id>>] =
                                [current |-> payload.supply, locked |-> 0]],
                 <<Event("CreateAsset", asset)>>)

get_asset(st, id) ==
    IF id \in DOMAIN st.assets
    THEN [code |-> Succeed, data |-> st.assets[id]]
    ELSE [code |-> AssetErrorCode("AssetExisted"), data |-> <<>>]

get_balance(st, user, asset_id) == st.balances[<<user, asset_id>>]

transfer(st, caller, payload) ==
    LET sub == _sub_value(st.assets, st.balances, caller, payload.asset_id, payload.value) IN
    IF sub.code # Succeed THEN Outcome(sub.code, st, <<>>)
    ELSE LET add == _add_value(st.assets, sub.bal, payload.to, payload.asset_id,
                               payload.value) IN
         IF add.code # Succeed
         THEN Outcome(add.code, [st EXCEPT !.balances = sub.bal], <<>>)
         ELSE Outcome(Succeed, [st EXCEPT !.balances = add.bal],
                      <<Event("TransferAsset",
                              [asset_id |-> payload.asset_id, from |-> caller,
                               to |-> payload.to, value |-> payload.value])>>)

(***************************************************************************)
(* DexService: add_trade, get_trades, order, get_order.                    *)
(***************************************************************************)
Trade(id, base_asset, counter_party) ==
    [id |-> id, base_asset |-> base_asset, counter_party |-> counter_party]

Fresh == [tag |-> "Fresh", v |-> 0]
Partial(v) == [tag |-> "Partial", v |-> v]
Full == [tag |-> "Full", v |-> 0]

Deal(price, amount) == [price |-> price, amount |-> amount]

add_trade(st, payload) ==
    LET base_asset == payload.base_asset
        counter_party == payload.counter_party
        trade_id == TradeIdOf(base_asset, counter_party)
        trade == Trade(trade_id, base_asset, counter_party)
    IN  IF base_asset = counter_party
        THEN Outcome(DexErrorCode("IllegalTrade"), st, <<>>)
        ELSE IF trade_id \in DOMAIN st.trades
        THEN Outcome(DexErrorCode("TradeExisted"), st, <<>>)
        ELSE Outcome(Succeed, [st EXCEPT !.trades = MapInsert(st.trades, trade_id, trade)],
                     <<Event("AddTrade", trade)>>)

get_trades(st) == {st.trades[id] : id \in DOMAIN st.trades}

get_trade(st, trade_id) ==
    IF trade_id \in DOMAIN st.trades
    THEN [code |-> Succeed, data |-> st.trades[trade_id]]
    ELSE [code |-> DexErrorCode("TradeNotExisted"), data |-> <<>>]

\* the facade calls of the DEX carry the synthesised context (extra = the token)
lock_asset(st, user, asset_id, value) ==
    lock(st.assets, st.balances, ADMISSION_TOKEN, user, asset_id, value)

\* an expiry check that lets every order through
NeverOverdue(expiry, limit) == FALSE

\* a guard that lets an expiry one past the limit through
OverdueOffByOne(expiry, limit) == expiry > limit + 1

\* payload.expiry > ctx.get_current_height() + self.validity.get()
Overdue(expiry, limit) == expiry > limit

\* ctx = [caller, height, tx_hash]; oc = the build's overflow checks; val = validity
order(st, oc, val, ctx, payload) ==
    LET trade_id == payload.trade_id
        limit == ctx.height + val
        new_order ==
            [trade_id |-> trade_id, tx_hash |-> ctx.tx_hash, kind |-> payload.kind,
             price |-> payload.price, amount |-> payload.amount, height |-> ctx.height,
             user |-> ctx.caller, expiry |-> payload.expiry, status |-> Fresh,
             deals |-> <<>>]
        escrow == new_order.amount * new_order.price
    IN  IF trade_id \notin DOMAIN st.trades
        THEN Outcome(DexErrorCode("TradeNotExisted"), st, <<>>)
        ELSE IF Overflows(limit) /\ oc THEN Outcome(Panicked, st, <<>>)
        ELSE IF Overdue(payload.expiry, Wrap(limit))
        THEN Outcome(DexErrorCode("OrderOverdue"), st, <<>>)
        ELSE IF new_order.kind = "Buy"
        THEN IF Overflows(escrow) /\ oc THEN Outcome(Panicked, st, <<>>)
             ELSE LET r == lock_asset(st, ctx.caller, st.trades[trade_id].base_asset,
                                      Wrap(escrow)) IN
                  IF r.code # Succeed THEN Outcome(r.code, st, <<>>)
                  ELSE Outcome(Succeed,
                               [st EXCEPT !.balances = r.bal,
                                          !.buy_orders =
                                              MapInsert(st.buy_orders, ctx.tx_hash, new_order)],
                               <<Event("Order", new_order)>>)
        ELSE LET r == lock_asset(st, ctx.caller, st.trades[trade_id].counter_party,
                                 new_order.amount) IN
             IF r.code # Succeed THEN Outcome(r.code, st, <<>>)
             ELSE Outcome(Succeed,
                          [st EXCEPT !.balances = r.bal,
                                     !.sell_orders =
                                         MapInsert(st.sell_orders, ctx.tx_hash, new_order)],
                          <<Event("Order", new_order)>>)

\* a lookup that leaves sell_orders out
get_order_without_sells(st, tx_hash) ==
    IF tx_hash \in DOMAIN st.buy_orders
    THEN [code |-> Succeed, order |-> st.buy_orders[tx_hash], deal_status |-> "Dealing"]
    ELSE IF tx_hash \in DOMAIN st.history_orders
    THEN [code |-> Succeed, order |-> st.history_orders[tx_hash], deal_status |-> "Dealt"]
    ELSE [code |-> DexErrorCode("OrderNotExisted"), order |-> <<>>, deal_status |-> "Dealing"]

get_order(st, tx_hash) ==
    IF tx_hash \in DOMAIN st.buy_orders
    THEN [code |-> Succeed, order |-> st.buy_orders[tx_hash], deal_status |-> "Dealing"]
    ELSE IF tx_hash \in DOMAIN st.sell_orders
    THEN [code |-> Succeed, order |-> st.sell_orders[tx_hash], deal_status |-> "Dealing"]
    ELSE IF tx_hash \in DOMAIN st.history_orders
    THEN [code |-> Succeed, order |-> st.history_orders[tx_hash], deal_status |-> "Dealt"]
    ELSE [code |-> DexErrorCode("OrderNotExisted"), order |-> <<>>, deal_status |-> "Dealing"]

(***************************************************************************)
(* The ordering of orders (impl PartialOrd for Order): -1 Less, 0 Equal,   *)
(* 1 Greater, 2 for None (two orders of different kinds).                  *)
(***************************************************************************)
U64Cmp(x, y) == IF x < y THEN 0 - 1 ELSE IF x > y THEN 1 ELSE 0

partial_cmp(self, other) ==
    IF self.kind = "Sell" /\ other.kind = "Sell"
    THEN IF self.price > other.price THEN 0 - 1
         ELSE IF self.price < other.price THEN 1
         ELSE U64Cmp(self.height, other.height)
    ELSE IF self.kind = "Buy" /\ other.kind = "Buy"
    THEN IF self.price > other.price THEN 1
         ELSE IF self.price < other.price THEN 0 - 1
         ELSE U64Cmp(self.height, other.height)
    ELSE 2

\* Vec::sort: stable, ascending.  x goes behind every element not greater than it.
RECURSIVE SortInsert(_, _)
SortInsert(sorted, x) ==
    IF sorted = <<>> THEN <<x>>
    ELSE LET n == Len(sorted) IN
         IF partial_cmp(sorted[n], x) <= 0
         THEN Append(sorted, x)
         ELSE Append(SortInsert(SubSeq(sorted, 1, n - 1), x), sorted[n])

\* queues that hold every order twice
sort_doubling(queue) == queue \o queue

RECURSIVE sort(_)
sort(queue) ==
    IF queue = <<>> THEN <<>>
    ELSE LET n == Len(queue) IN SortInsert(sort(SubSeq(queue, 1, n - 1)), queue[n])

\* Ord::cmp panics ("unreachable") on two orders of different kinds
SortPanics(queue) ==
    \E i, j \in 1..Len(queue) : partial_cmp(queue[i], queue[j]) = 2

(***************************************************************************)
(* The iteration orders a StoreMap may present its keys in.                *)
(***************************************************************************)
Iterations(m) ==
    {s \in [1..Cardinality(DOMAIN m) -> DOMAIN m] :
        \A i, j \in 1..Cardinality(DOMAIN m) : s[i] = s[j] => i = j}

RECURSIVE SelectKeys(_, _)
SelectKeys(iter, keep) ==
    IF iter = <<>> THEN <<>>
    ELSE IF Head(iter) \in keep
    THEN <<Head(iter)>> \o SelectKeys(Tail(iter), keep)
    ELSE SelectKeys(Tail(iter), keep)

(***************************************************************************)
(* The facade calls of one settlement, each through                        *)
(* call_and_parse_service_response!: the first error returns, and what the *)
(* earlier calls wrote stays written.  A value that is an unchecked        *)
(* product panics or wraps.                                                *)
(***************************************************************************)
Call(op, user, asset_id, value) ==
    [op |-> op, user |-> user, asset_id |-> asset_id, value |-> value]

unlock_asset(as, bal, user, asset_id, value) ==
    unlock(as, bal, ADMISSION_TOKEN, user, asset_id, value)

dex_add_value(as, bal, user, asset_id, value) ==
    add_value(as, bal, ADMISSION_TOKEN, user, asset_id, value)

dex_sub_value(as, bal, user, asset_id, value) ==
    sub_value(as, bal, ADMISSION_TOKEN, user, asset_id, value)

FacadeCall(as, bal, c, value) ==
    CASE c.op = "unlock" -> unlock_asset(as, bal, c.user, c.asset_id, value)
      [] c.op = "add_value" -> dex_add_value(as, bal, c.user, c.asset_id, value)
      [] c.op = "sub_value" -> dex_sub_value(as, bal, c.user, c.asset_id, value)

RECURSIVE FacadeCalls(_, _, _, _)
\* the macro on the response r of one call: an error returns, else the rest follow
CallAndParse(as, r, rest, oc) ==
    IF r.code # Succeed THEN r ELSE FacadeCalls(as, r.bal, rest, oc)

FacadeCalls(as, bal, calls, oc) ==
    IF calls = <<>> THEN [code |-> Succeed, bal |-> bal]
    ELSE IF Overflows(Head(calls).value) /\ oc THEN [code |-> Panicked, bal |-> bal]
    ELSE CallAndParse(as, FacadeCall(as, bal, Head(calls), Wrap(Head(calls).value)),
                      Tail(calls), oc)

\* a buyer side that debits the reserved price instead of the deal price
BuyerCallsAtReservedPrice(trade, deal_price, deal_amount, current_buy) ==
    <<Call("unlock", current_buy.user, trade.base_asset, deal_amount * current_buy.price),
      Call("add_value", current_buy.user, trade.counter_party, deal_amount),
      Call("sub_value", current_buy.user, trade.base_asset,
           deal_amount * current_buy.price)>>

BuyerCalls(trade, deal_price, deal_amount, current_buy) ==
    <<Call("unlock", current_buy.user, trade.base_asset, deal_amount * current_buy.price),
      Call("add_value", current_buy.user, trade.counter_party, deal_amount),
      Call("sub_value", current_buy.user, trade.base_asset, deal_amount * deal_price)>>

SellerCalls(trade, deal_price, deal_amount, current_sell) ==
    <<Call("unlock", current_sell.user, trade.counter_party, deal_amount),
      Call("add_value", current_sell.user, trade.base_asset, deal_amount * deal_price),
      Call("sub_value", current_sell.user, trade.counter_party, deal_amount)>>

\* a dealt amount that forgets what was dealt before
DealtAfterForgetful(o, deal_amount) ==
    IF o.status.tag = "Full" THEN [panic |-> TRUE, v |-> 0]
    ELSE [panic |-> FALSE, v |-> deal_amount]

\* the dealt amount of an order that is made Partial; a Full order panics
DealtAfter(o, deal_amount) ==
    IF o.status.tag = "Full" THEN [panic |-> TRUE, v |-> 0]
    ELSE [panic |-> FALSE,
          v |-> (IF o.status.tag = "Fresh" THEN 0 ELSE o.status.v) + deal_amount]

Settled(code, st, next) == [code |-> code, st |-> st, next |-> next]

\* a settle_buyer that leaves the filled buy order in buy_orders
RecordBuyerDealKeepingBuy(st, oc, settle_deal, current_buy, current_sell, r, dealt) ==
    IF r.code # Succeed
    THEN Settled(r.code, [st EXCEPT !.balances = r.bal], current_sell)
    ELSE Settled(Succeed,
                 [st EXCEPT
                    !.balances = r.bal,
                    !.buy_orders =
                        MapInsert(@, current_buy.tx_hash,
                                  [current_buy EXCEPT !.status = Full,
                                                      !.deals = Append(@, settle_deal)]),
                    !.sell_orders =
                        MapInsert(@, current_sell.tx_hash,
                                  [current_sell EXCEPT !.status = Partial(Wrap(dealt.v)),
                                                       !.deals = Append(@, settle_deal)])],
                 [current_sell EXCEPT !.status = Partial(Wrap(dealt.v)),
                                      !.deals = Append(@, settle_deal)])

\* the rest of settle_buyer after its facade calls answered r: the buy becomes
\* Full and moves to history_orders, the sell becomes Partial(dealt.v)
RecordBuyerDeal(st, oc, settle_deal, current_buy, current_sell, r, dealt) ==
    IF r.code # Succeed
    THEN Settled(r.code, [st EXCEPT !.balances = r.bal], current_sell)
    ELSE IF dealt.panic \/ (Overflows(dealt.v) /\ oc)
    THEN Settled(Panicked, [st EXCEPT !.balances = r.bal], current_sell)
    ELSE Settled(Succeed,
                 [st EXCEPT
                    !.balances = r.bal,
                    !.buy_orders = MapRemove(@, current_buy.tx_hash),
                    !.history_orders =
                        MapInsert(@, current_buy.tx_hash,
                                  [current_buy EXCEPT !.status = Full,
                                                      !.deals = Append(@, settle_deal)]),
                    !.sell_orders =
                        MapInsert(@, current_sell.tx_hash,
                                  [current_sell EXCEPT !.status = Partial(Wrap(dealt.v)),
                                                       !.deals = Append(@, settle_deal)])],
                 [current_sell EXCEPT !.status = Partial(Wrap(dealt.v)),
                                      !.deals = Append(@, settle_deal)])

settle_buyer(st, oc, deal_price, deal_amount, current_buy, current_sell) ==
    LET t == get_trade(st, current_buy.trade_id) IN
    IF t.code # Succeed THEN Settled(t.code, st, current_sell)
    ELSE RecordBuyerDeal(
             st, oc, Deal(deal_price, deal_amount), current_buy, current_sell,
             FacadeCalls(st.assets, st.balances,
                         BuyerCalls(t.data, deal_price, deal_amount, current_buy)
                         \o SellerCalls(t.data, deal_price, deal_amount, current_sell), oc),
             DealtAfter(current_sell, deal_amount))

\* a settle_seller that records the deal in the sell order only
RecordSellerDealOneSided(st, oc, settle_deal, current_buy, current_sell, r, dealt) ==
    IF r.code # Succeed
    THEN Settled(r.code, [st EXCEPT !.balances = r.bal], current_buy)
    ELSE Settled(Succeed,
                 [st EXCEPT
                    !.balances = r.bal,
                    !.sell_orders = MapRemove(@, current_sell.tx_hash),
                    !.history_orders =
                        MapInsert(@, current_sell.tx_hash,
                                  [current_sell EXCEPT !.status = Full,
                                                       !.deals = Append(@, settle_deal)]),
                    !.buy_orders =
                        MapInsert(@, current_buy.tx_hash,
                                  [current_buy EXCEPT !.status = Partial(Wrap(dealt.v))])],
                 [current_buy EXCEPT !.status = Partial(Wrap(dealt.v))])

\* the rest of settle_seller: the sell becomes Full and moves to history_orders,
\* the buy becomes Partial(dealt.v)
RecordSellerDeal(st, oc, settle_deal, current_buy, current_sell, r, dealt) ==
    IF r.code # Succeed
    THEN Settled(r.code, [st EXCEPT !.balances = r.bal], current_buy)
    ELSE IF dealt.panic \/ (Overflows(dealt.v) /\ oc)
    THEN Settled(Panicked, [st EXCEPT !.balances = r.bal], current_buy)
    ELSE Settled(Succeed,
                 [st EXCEPT
                    !.balances = r.bal,
                    !.sell_orders = MapRemove(@, current_sell.tx_hash),
                    !.history_orders =
                        MapInsert(@, current_sell.tx_hash,
                                  [current_sell EXCEPT !.status = Full,
                                                       !.deals = Append(@, settle_deal)]),
                    !.buy_orders =
                        MapInsert(@, current_buy.tx_hash,
                                  [current_buy EXCEPT !.status = Partial(Wrap(dealt.v)),
                                                      !.deals = Append(@, settle_deal)])],
                 [current_buy EXCEPT !.status = Partial(Wrap(dealt.v)),
                                     !.deals = Append(@, settle_deal)])

settle_seller(st, oc, deal_price, deal_amount, current_buy, current_sell) ==
    LET t == get_trade(st, current_buy.trade_id) IN
    IF t.code # Succeed THEN Settled(t.code, st, current_buy)
    ELSE RecordSellerDeal(
             st, oc, Deal(deal_price, deal_amount), current_buy, current_sell,
             FacadeCalls(st.assets, st.balances,
                         SellerCalls(t.data, deal_price, deal_amount, current_sell)
                         \o BuyerCalls(t.data, deal_price, deal_amount, current_buy), oc),
             DealtAfter(current_buy, deal_amount))

\* a settle_both that files the sell order in history_orders and keeps it in
\* sell_orders too
RecordBothDealKeepingSell(st, settle_deal, current_buy, current_sell, r) ==
    IF r.code # Succeed
    THEN Settled(r.code, [st EXCEPT !.balances = r.bal], <<>>)
    ELSE Settled(Succeed,
                 [st EXCEPT
                    !.balances = r.bal,
                    !.buy_orders = MapRemove(@, current_buy.tx_hash),
                    !.history_orders =
                        MapInsert(MapInsert(@, current_sell.tx_hash,
                                            [current_sell EXCEPT
                                               !.status = Full,
                                               !.deals = Append(@, settle_deal)]),
                                  current_buy.tx_hash,
                                  [current_buy EXCEPT !.status = Full,
                                                      !.deals = Append(@, settle_deal)])],
                 <<>>)

\* the rest of settle_both: both orders become Full and move to history_orders
RecordBothDeal(st, settle_deal, current_buy, current_sell, r) ==
    IF r.code # Succeed
    THEN Settled(r.code, [st EXCEPT !.balances = r.bal], <<>>)
    ELSE Settled(Succeed,
                 [st EXCEPT
                    !.balances = r.bal,
                    !.sell_orders = MapRemove(@, current_sell.tx_hash),
                    !.buy_orders = MapRemove(@, current_buy.tx_hash),
                    !.history_orders =
                        MapInsert(MapInsert(@, current_sell.tx_hash,
                                            [current_sell EXCEPT
                                               !.status = Full,
                                               !.deals = Append(@, settle_deal)]),
                                  current_buy.tx_hash,
                                  [current_buy EXCEPT !.status = Full,
                                                      !.deals = Append(@, settle_deal)])],
                 <<>>)

settle_both(st, oc, deal_price, deal_amount, current_buy, current_sell) ==
    LET t == get_trade(st, current_buy.trade_id) IN
    IF t.code # Succeed THEN Settled(t.code, st, <<>>)
    ELSE RecordBothDeal(
             st, Deal(deal_price, deal_amount), current_buy, current_sell,
             FacadeCalls(st.assets, st.balances,
                         SellerCalls(t.data, deal_price, deal_amount, current_sell)
                         \o BuyerCalls(t.data, deal_price, deal_amount, current_buy), oc))

(***************************************************************************)
(* remove_expiry_orders.  The orders with expiry < current_height are      *)
(* collected in iteration order, then each is removed, refunded (the       *)
(* response of unlock_asset is dropped) and moved to history_orders.       *)
(***************************************************************************)
\* a sweep that also takes the orders that expire at the current height
ExpiredKeysInclusive(m, iter, current_height) ==
    SelectKeys(iter, {k \in DOMAIN m : m[k].expiry <= current_height})

ExpiredKeys(m, iter, current_height) ==
    SelectKeys(iter, {k \in DOMAIN m : m[k].expiry < current_height})

\* amount - p is unchecked
UnlockAmount(o) ==
    CASE o.status.tag = "Fresh" -> o.amount
      [] o.status.tag = "Partial" -> o.amount - o.status.v
      [] o.status.tag = "Full" -> 0

RECURSIVE ExpireBuys(_, _, _)
ExpireBuys(st, oc, expiry_buys) ==
    IF expiry_buys = <<>> THEN [panic |-> FALSE, st |-> st]
    ELSE LET o == st.buy_orders[Head(expiry_buys)]
             unlock_amount == Wrap(UnlockAmount(o))
             refund == unlock_asset(st.assets, st.balances, o.user,
                                    st.trades[o.trade_id].base_asset, unlock_amount)
         IN  IF Overflows(UnlockAmount(o)) /\ oc THEN [panic |-> TRUE, st |-> st]
             ELSE ExpireBuys(
                     [st EXCEPT !.buy_orders = MapRemove(@, Head(expiry_buys)),
                                !.balances = IF unlock_amount # 0 THEN refund.bal ELSE @,
                                !.history_orders = MapInsert(@, o.tx_hash, o)],
                     oc, Tail(expiry_buys))

RECURSIVE ExpireSells(_, _, _)
ExpireSells(st, oc, expiry_sells) ==
    IF expiry_sells = <<>> THEN [panic |-> FALSE, st |-> st]
    ELSE LET o == st.sell_orders[Head(expiry_sells)]
             unlock_amount == Wrap(UnlockAmount(o))
             refund == unlock_asset(st.assets, st.balances, o.user,
                                    st.trades[o.trade_id].counter_party, unlock_amount)
         IN  IF Overflows(UnlockAmount(o)) /\ oc THEN [panic |-> TRUE, st |-> st]
             ELSE ExpireSells(
                     [st EXCEPT !.sell_orders = MapRemove(@, Head(expiry_sells)),
                                !.balances = IF unlock_amount # 0 THEN refund.bal ELSE @,
                                !.history_orders = MapInsert(@, o.tx_hash, o)],
                     oc, Tail(expiry_sells))

\* the sells are swept after the buys, unless sweeping the buys panicked
SweepSells(b, oc, current_height, sell_iter) ==
    IF b.panic THEN b
    ELSE ExpireSells(b.st, oc, ExpiredKeys(b.st.sell_orders, sell_iter, current_height))

remove_expiry_orders(st, oc, current_height, buy_iter, sell_iter) ==
    SweepSells(ExpireBuys(st, oc, ExpiredKeys(st.buy_orders, buy_iter, current_height)),
               oc, current_height, sell_iter)

(***************************************************************************)
(* The match loop of match_and_deal.  log collects one entry per           *)
(* settlement attempted: the pair as popped, the deal, the response code,  *)
(* the balances before and after, the books after, and the number of       *)
(* orders on the two queues when the pair was popped (queued) and when the *)
(* turn was over (left).                                                   *)
(***************************************************************************)
\* amount - v is unchecked; a Full order is the unreachable!() arm
LeftOf(o) == IF o.status.tag = "Fresh" THEN o.amount ELSE o.amount - o.status.v

Attempt(variant, deal_price, deal_amount, current_buy, current_sell, before, r, queued) ==
    [variant |-> variant, price |-> deal_price, amount |-> deal_amount,
     queued |-> queued, left |-> queued,
     buy |-> current_buy, sell |-> current_sell, code |-> r.code,
     before |-> before, after |-> r.st.balances,
     books |-> [buy_orders |-> r.st.buy_orders, sell_orders |-> r.st.sell_orders,
                history_orders |-> r.st.history_orders]]

Front(q) == SubSeq(q, 1, Len(q) - 1)

RECURSIVE MatchLoop(_, _, _, _, _)
\* what the loop does with the response r of a settlement of the popped pair: a
\* panic ends the hook; an error drops both orders (continue); a success pushes
\* the order that is left partially filled back on its queue (push = "buy",
\* "sell", or "none" after settle_both, whose response is not read)
\* the next turn of the loop; the turn that is over is logged with the number of
\* orders it leaves on the two queues
GoOn(st, oc, buy_queue, sell_queue, log, attempt) ==
    MatchLoop(st, oc, buy_queue, sell_queue,
              Append(log, [attempt EXCEPT !.left = Len(buy_queue) + Len(sell_queue)]))

\* a loop that puts the sell order of a failed pair back on its queue
AfterSettlePushingBack(st, oc, buy_rest, sell_rest, log, attempt, push, r) ==
    IF r.code = Panicked THEN [panic |-> TRUE, st |-> st, log |-> log]
    ELSE IF r.code # Succeed
    THEN GoOn(r.st, oc, buy_rest, Append(sell_rest, attempt.sell), log, attempt)
    ELSE IF push = "none"
    THEN GoOn(r.st, oc, buy_rest, sell_rest, log, attempt)
    ELSE IF push = "sell"
    THEN GoOn(r.st, oc, buy_rest, Append(sell_rest, r.next), log, attempt)
    ELSE GoOn(r.st, oc, Append(buy_rest, r.next), sell_rest, log, attempt)

AfterSettle(st, oc, buy_rest, sell_rest, log, attempt, push, r) ==
    IF r.code = Panicked THEN [panic |-> TRUE, st |-> st, log |-> log]
    ELSE IF r.code # Succeed \/ push = "none"
    THEN GoOn(r.st, oc, buy_rest, sell_rest, log, attempt)
    ELSE IF push = "sell"
    THEN GoOn(r.st, oc, buy_rest, Append(sell_rest, r.next), log, attempt)
    ELSE GoOn(r.st, oc, Append(buy_rest, r.next), sell_rest, log, attempt)

\* one settlement call of the loop and what follows it
SettleAndGoOn(st, oc, buy_rest, sell_rest, log, variant, push, deal_price, deal_amount, current_buy, current_sell, r) ==
    AfterSettle(st, oc, buy_rest, sell_rest, log,
                Attempt(variant, deal_price, deal_amount, current_buy, current_sell,
                        st.balances, r, Len(buy_rest) + Len(sell_rest) + 2),
                push, r)

\* a loop that never finds the book uncrossed
NeverUncrossed(current_buy, current_sell) == FALSE

\* the loop's exit: the popped buy bids less than the popped sell asks
Uncrossed(current_buy, current_sell) == current_buy.price < current_sell.price

\* one turn of the loop on the popped pair
MatchPair(st, oc, buy_rest, sell_rest, log, current_buy, current_sell) ==
    LET sum == current_buy.price + current_sell.price
        deal_price == Wrap(sum) \div 2
        buy_left == Wrap(LeftOf(current_buy))
        sell_left == Wrap(LeftOf(current_sell))
        Panic == [panic |-> TRUE, st |-> st, log |-> log]
    IN
    IF Uncrossed(current_buy, current_sell)
    THEN [panic |-> FALSE, st |-> st, log |-> log]
    ELSE IF Overflows(sum) /\ oc THEN Panic
    ELSE IF current_buy.status.tag = "Full" \/ (Overflows(LeftOf(current_buy)) /\ oc)
    THEN Panic
    ELSE IF current_sell.status.tag = "Full" \/ (Overflows(LeftOf(current_sell)) /\ oc)
    THEN Panic
    ELSE IF buy_left < sell_left
    THEN SettleAndGoOn(st, oc, buy_rest, sell_rest, log, "settle_buyer", "sell",
                       deal_price, buy_left, current_buy, current_sell,
                       settle_buyer(st, oc, deal_price, buy_left, current_buy,
                                    current_sell))
    ELSE IF buy_left > sell_left
    THEN SettleAndGoOn(st, oc, buy_rest, sell_rest, log, "settle_seller", "buy",
                       deal_price, sell_left, current_buy, current_sell,
                       settle_seller(st, oc, deal_price, sell_left, current_buy,
                                     current_sell))
    ELSE SettleAndGoOn(st, oc, buy_rest, sell_rest, log, "settle_both", "none",
                       deal_price, buy_left, current_buy, current_sell,
                       settle_both(st, oc, deal_price, buy_left, current_buy,
                                   current_sell))

MatchLoop(st, oc, buy_queue, sell_queue, log) ==
    IF buy_queue = <<>> \/ sell_queue = <<>>
    THEN [panic |-> FALSE, st |-> st, log |-> log]
    ELSE MatchPair(st, oc, Front(buy_queue), Front(sell_queue), log,
                   buy_queue[Len(buy_queue)], sell_queue[Len(sell_queue)])

\* the orders of a book in the order the store iterates them
QueueOf(m, iter) == [i \in 1..Len(iter) |-> m[iter[i]]]

\* what the hook hands back after the sweep e and the loop m
HookResult(e, m) == [panic |-> m.panic, st |-> m.st, swept |-> e.st, log |-> m.log]

\* the hook after the sweep e: the queues are sorted (a panic if an order of the
\* other kind is in a book) and matched
MatchQueues(st, oc, e, buy_queue, sell_queue) ==
    IF e.panic \/ SortPanics(buy_queue) \/ SortPanics(sell_queue)
    THEN [panic |-> TRUE, st |-> st, swept |-> st, log |-> <<>>]
    ELSE HookResult(e, MatchLoop(e.st, oc, sort(buy_queue), sort(sell_queue), <<>>))

\* the hook: [panic, st: the store it leaves, swept: the store after the expiry
\* sweep, log: the settlements attempted]
AfterSweep(st, oc, e, buy_iter, sell_iter) ==
    MatchQueues(st, oc, e,
                QueueOf(e.st.buy_orders, SelectKeys(buy_iter, DOMAIN e.st.buy_orders)),
                QueueOf(e.st.sell_orders, SelectKeys(sell_iter, DOMAIN e.st.sell_orders)))

match_and_deal(st, oc, params_height, buy_iter, sell_iter) ==
    AfterSweep(st, oc, remove_expiry_orders(st, oc, params_height, buy_iter, sell_iter),
               buy_iter, sell_iter)

(***************************************************************************)
(* The executor.  A transaction whose response is an error (or that        *)
(* panicked) is rolled back and leaves no trace in the state: only the     *)
(* transactions that succeed are steps.  A panic of the hook stops the     *)
(* chain.                                                                  *)
(***************************************************************************)
Halted == last.op = "match_and_deal" /\ last.code = Panicked

NoHookRun == [height |-> 0, panic |-> FALSE, pre |-> <<>>, swept |-> <<>>, log |-> <<>>]

Commit(st) ==
    /\ assets' = st.assets
    /\ balances' = st.balances
    /\ trades' = st.trades
    /\ buy_orders' = st.buy_orders
    /\ sell_orders' = st.sell_orders
    /\ history_orders' = st.history_orders

ExecTx(op, out) ==
    /\ ~Halted
    /\ height <= MaxHeight
    /\ out.code = Succeed
    /\ Commit(out.st)
    /\ last' = [op |-> op, code |-> out.code, events |-> out.events]
    /\ UNCHANGED <<overflow_checks, validity, height, settles>>

NextTxHash ==
    Cardinality(DOMAIN buy_orders \cup DOMAIN sell_orders \cup DOMAIN history_orders) + 1

(***************************************************************************)
(* The specification: genesis, then blocks of transactions, each block     *)
(* closed by the hook.                                                     *)
(***************************************************************************)
Init ==
    /\ overflow_checks \in BOOLEAN
    /\ \E supply \in GenesisSupplies :
         LET g == asset_init_genesis([id |-> GenesisAssetId, name |-> "genesis",
                                      symbol |-> "G", supply |-> supply, issuer |-> 1])
         IN  assets = g.assets /\ balances = g.balances
    /\ trades = EmptyMap
    /\ buy_orders = EmptyMap
    /\ sell_orders = EmptyMap
    /\ history_orders = EmptyMap
    /\ validity \in Validities
    /\ height = 1
    /\ last = [op |-> "init_genesis", code |-> Succeed, events |-> <<>>]
    /\ settles = NoHookRun
    /\ placed = EmptyMap

CreateAsset ==
    \E caller \in CreateCallers, payload \in CreatePayloads :
        /\ ExecTx("create_asset", create_asset(Store, caller, payload))
        /\ UNCHANGED placed

Transfer ==
    \E caller \in Users, asset_id \in AssetIds, to \in Users, value \in TransferValues :
        /\ ExecTx("transfer",
                  transfer(Store, caller,
                           [asset_id |-> asset_id, to |-> to, value |-> value]))
        /\ UNCHANGED placed

AddTrade ==
    \E base_asset \in BaseAssets, counter_party \in AssetIds :
        /\ ExecTx("add_trade",
                  add_trade(Store,
                            [base_asset |-> base_asset, counter_party |-> counter_party]))
        /\ UNCHANGED placed

ExpiryOffsets == {0, 1}

PlaceOrder ==
    \E caller \in Users, trade_id \in DOMAIN trades, kind \in {"Buy", "Sell"},
       price \in Prices, amount \in Amounts, d \in ExpiryOffsets :
        LET ctx == [caller |-> caller, height |-> height, tx_hash |-> NextTxHash]
            payload == [trade_id |-> trade_id, kind |-> kind, price |-> price,
                        amount |-> amount, expiry |-> height + d]
            out == order(Store, overflow_checks, validity, ctx, payload)
        IN  /\ NextTxHash <= MaxOrders
            /\ ExecTx("order", out)
            /\ placed' = MapInsert(placed, ctx.tx_hash,
                                   [ctx |-> ctx, payload |-> payload,
                                    before |-> balances, after |-> out.st.balances])

\* the block is closed with the hook's result m
CloseBlock(m) ==
    /\ Commit(m.st)
    /\ last' = [op |-> "match_and_deal",
                code |-> IF m.panic THEN Panicked ELSE Succeed, events |-> <<>>]
    /\ settles' = [height |-> height, panic |-> m.panic, pre |-> Store,
                   swept |-> m.swept, log |-> m.log]
    /\ height' = IF m.panic THEN height ELSE height + 1

MatchAndDeal ==
    /\ ~Halted
    /\ height <= MaxHeight
    /\ \E buy_iter \in Iterations(buy_orders), sell_iter \in Iterations(sell_orders) :
         CloseBlock(match_and_deal(Store, overflow_checks, height, buy_iter, sell_iter))
    /\ UNCHANGED <<overflow_checks, validity, placed>>

Next == CreateAsset \/ AddTrade \/ PlaceOrder \/ MatchAndDeal

Spec == Init /\ [][Next]_vars

(***************************************************************************)
(* Transactions with their responses on record.  A transaction that fails  *)
(* is rolled back: the store is as before, the response is what the caller *)
(* sees.  last.args holds the caller and the payload.                      *)
(***************************************************************************)
Respond(op, args, out) ==
    /\ ~Halted
    /\ height <= MaxHeight
    /\ Commit(IF out.code = Succeed THEN out.st ELSE Store)
    /\ last' = [op |-> op, code |-> out.code,
                events |-> IF out.code = Succeed THEN out.events ELSE <<>>,
                args |-> args]
    /\ UNCHANGED <<overflow_checks, validity, height, settles>>

\* order on any of trade_ids with any expiry, accepted or not
OrderOn(trade_ids, callers, kinds, prices, amounts, expiries) ==
    \E caller \in callers, trade_id \in trade_ids, kind \in kinds,
       price \in prices, amount \in amounts, expiry \in expiries :
        LET ctx == [caller |-> caller, height |-> height, tx_hash |-> NextTxHash]
            payload == [trade_id |-> trade_id, kind |-> kind, price |-> price,
                        amount |-> amount, expiry |-> expiry]
            out == order(Store, overflow_checks, validity, ctx, payload)
        IN  /\ NextTxHash <= MaxOrders
            /\ Respond("order", [ctx |-> ctx, payload |-> payload], out)
            /\ placed' = IF out.code = Succeed
                         THEN MapInsert(placed, ctx.tx_hash,
                                        [ctx |-> ctx, payload |-> payload,
                                         before |-> balances, after |-> out.st.balances])
                         ELSE placed

\* order on an admitted trade
OrderWith(callers, kinds, prices, amounts, expiries) ==
    OrderOn(DOMAIN trades, callers, kinds, prices, amounts, expiries)

(***************************************************************************)
(* LedgerSpec: the facade of the asset service called by any service, with *)
(* or without the admission token.  A facade call is not a transaction:    *)
(* what it wrote stays written.  last.args holds the context's extra and   *)
(* the payload, last.before the balances before the call.                  *)
(***************************************************************************)
Extras == {"none", ADMISSION_TOKEN, "other_token"}
FacadeValues == {1, 4}
\* the account the calls act on; the issuer's genesis balance stands by
FacadeUsers == {2}

FacadeStep(op, extra, user, asset_id, value, r) ==
    /\ balances' = r.bal
    /\ last' = [op |-> op, code |-> r.code, events |-> <<>>,
                args |-> [extra |-> extra, user |-> user, asset_id |-> asset_id,
                          value |-> value],
                before |-> balances]
    /\ UNCHANGED <<overflow_checks, assets, trades, buy_orders, sell_orders,
                   history_orders, validity, height, settles, placed>>

FacadeLock ==
    \E extra \in Extras, user \in FacadeUsers, asset_id \in AssetIds, value \in FacadeValues :
        FacadeStep("lock", extra, user, asset_id, value,
                   lock(assets, balances, extra, user, asset_id, value))

FacadeUnlock ==
    \E extra \in Extras, user \in FacadeUsers, asset_id \in AssetIds, value \in FacadeValues :
        FacadeStep("unlock", extra, user, asset_id, value,
                   unlock(assets, balances, extra, user, asset_id, value))

FacadeAddValue ==
    \E extra \in Extras, user \in FacadeUsers, asset_id \in AssetIds, value \in FacadeValues :
        FacadeStep("add_value", extra, user, asset_id, value,
                   add_value(assets, balances, extra, user, asset_id, value))

FacadeSubValue ==
    \E extra \in Extras, user \in FacadeUsers, asset_id \in AssetIds, value \in FacadeValues :
        FacadeStep("sub_value", extra, user, asset_id, value,
                   sub_value(assets, balances, extra, user, asset_id, value))

NextLedger == FacadeLock \/ FacadeUnlock \/ FacadeAddValue \/ FacadeSubValue

\* the ledger's arithmetic is checked_add / checked_sub throughout: one build suffices
InitLedger == Init /\ overflow_checks = FALSE

LedgerSpec == InitLedger /\ [][NextLedger]_vars

(***************************************************************************)
(* ExpirySpec: buy orders of one unit at price 1 with every expiry, under  *)
(* every kind of validity (none, one block, the largest u64).              *)
(***************************************************************************)
WideValidities == {0, 1, MaxU64}

InitExpiry ==
    /\ overflow_checks \in BOOLEAN
    /\ \E supply \in GenesisSupplies :
         LET g == asset_init_genesis([id |-> GenesisAssetId, name |-> "genesis",
                                      symbol |-> "G", supply |-> supply, issuer |-> 1])
         IN  assets = g.assets /\ balances = g.balances
    /\ trades = EmptyMap
    /\ buy_orders = EmptyMap
    /\ sell_orders = EmptyMap
    /\ history_orders = EmptyMap
    /\ validity \in WideValidities
    /\ height = 1
    /\ last = [op |-> "init_genesis", code |-> Succeed, events |-> <<>>]
    /\ settles = NoHookRun
    /\ placed = EmptyMap

OrderAnyExpiry == OrderWith({1}, {"Buy"}, {1}, {1}, U64)

NextExpiry == AddTrade \/ OrderAnyExpiry \/ MatchAndDeal

ExpirySpec == InitExpiry /\ [][NextExpiry]_vars

(***************************************************************************)
(* GuardSpec: orders of one unit with every expiry on the trade of the     *)
(* genesis asset, admitted or not yet, under every kind of validity.       *)
(***************************************************************************)
OrderTradeIds == {TradeIdOf(x, y) : x \in BaseAssets, y \in AssetIds \ BaseAssets}

OrderAnyTrade == OrderOn(OrderTradeIds, {1}, {"Buy", "Sell"}, {1}, {1}, U64)

NextGuard == AddTrade \/ OrderAnyTrade \/ MatchAndDeal

GuardSpec == InitExpiry /\ [][NextGuard]_vars

(***************************************************************************)
(* AssetSpec: create_asset by every user with several payloads, accepted   *)
(* or not.  The balance of a key never written is the default one.         *)
(***************************************************************************)
WideSupplies == {1, 2, 3}
WidePayloads == {[name |-> "coin", symbol |-> "C", supply |-> s] : s \in WideSupplies}
WideAssetIds == {GenesisAssetId} \cup {AssetDigest(p, c) : p \in WidePayloads, c \in Users}

InitAsset ==
    /\ overflow_checks \in BOOLEAN
    /\ \E supply \in GenesisSupplies :
         LET g == asset_init_genesis([id |-> GenesisAssetId, name |-> "genesis",
                                      symbol |-> "G", supply |-> supply, issuer |-> 1])
         IN  /\ assets = g.assets
             /\ balances = [k \in Users \X WideAssetIds |->
                              IF k \in DOMAIN g.balances THEN g.balances[k]
                              ELSE DefaultBalance]
    /\ trades = EmptyMap
    /\ buy_orders = EmptyMap
    /\ sell_orders = EmptyMap
    /\ history_orders = EmptyMap
    /\ validity \in Validities
    /\ height = 1
    /\ last = [op |-> "init_genesis", code |-> Succeed, events |-> <<>>]
    /\ settles = NoHookRun
    /\ placed = EmptyMap

CreateAnyAsset ==
    \E caller \in Users, payload \in WidePayloads :
        /\ Respond("create_asset", [caller |-> caller, payload |-> payload],
                   create_asset(Store, caller, payload))
        /\ UNCHANGED placed

\* a read: the response is recorded, the store is left alone
Answer(op, args, r) == Respond(op, args, Outcome(r.code, Store, <<>>)) /\ UNCHANGED placed

GetAnyAsset == \E id \in WideAssetIds : Answer("get_asset", [id |-> id], get_asset(Store, id))

NextAsset == CreateAnyAsset \/ GetAnyAsset

AssetSpec == InitAsset /\ [][NextAsset]_vars

(***************************************************************************)
(* QuerySpec: get_order of every transaction hash between orders at one    *)
(* price and hooks that fill and expire them.                              *)
(***************************************************************************)
TxHashes == 1..(MaxOrders + 1)
QueryExpiries == {1, 2}

OrderAtPar == OrderWith(Users, {"Buy", "Sell"}, {1}, Amounts, QueryExpiries)

GetAnyOrder ==
    \E tx_hash \in TxHashes :
        Answer("get_order", [tx_hash |-> tx_hash], get_order(Store, tx_hash))

NextQuery == CreateAsset \/ AddTrade \/ OrderAtPar \/ MatchAndDeal \/ GetAnyOrder

QuerySpec == Init /\ [][NextQuery]_vars

(***************************************************************************)
(* TradeSpec: add_trade with every pair of hashes, accepted or not.        *)
(* add_trade does not look the two hashes up in the asset ledger, so a     *)
(* hash that names no asset is an input like any other.                    *)
(***************************************************************************)
UnissuedAssetId == 12
TradeAssets == AssetIds \cup {UnissuedAssetId}

AddAnyTrade ==
    \E base_asset \in TradeAssets, counter_party \in TradeAssets :
        /\ Respond("add_trade", [base_asset |-> base_asset, counter_party |-> counter_party],
                   add_trade(Store,
                             [base_asset |-> base_asset, counter_party |-> counter_party]))
        /\ UNCHANGED placed

NextTrade == CreateAsset \/ AddAnyTrade

TradeSpec == Init /\ [][NextTrade]_vars

(***************************************************************************)
(* PriceSpec: orders of one unit at prices whose sum can pass the largest  *)
(* u64.                                                                    *)
(***************************************************************************)
HighPrices == {2, 3}
LateExpiries == {2}

OrderHighPrice == OrderWith(Users, {"Buy", "Sell"}, HighPrices, {1}, LateExpiries)

NextPrice == CreateAsset \/ AddTrade \/ OrderHighPrice \/ MatchAndDeal

PriceSpec == Init /\ [][NextPrice]_vars

(***************************************************************************)
(* TransferSpec: transfers of every user to every user, accepted or not,   *)
(* between orders that lock part of the balances.                          *)
(***************************************************************************)
TransferAmounts == {1, 3}

TransferAny ==
    \E caller \in Users, asset_id \in AssetIds, to \in Users, value \in TransferAmounts :
        /\ Respond("transfer",
                   [caller |-> caller,
                    payload |-> [asset_id |-> asset_id, to |-> to, value |-> value]],
                   transfer(Store, caller,
                            [asset_id |-> asset_id, to |-> to, value |-> value]))
        /\ UNCHANGED placed

\* the issuer bids one unit at price 1, which locks one unit of the genesis asset
OrderOneUnit == OrderWith({1}, {"Buy"}, {1}, {1}, LateExpiries)

NextTransfer == CreateAsset \/ AddTrade \/ OrderOneUnit \/ TransferAny

TransferSpec == Init /\ [][NextTransfer]_vars

(***************************************************************************)
(* RegistrySpec: every write of the two services (create_asset, transfer,  *)
(* add_trade, order) and the hook, with orders of one unit at one price.   *)
(***************************************************************************)
OrderUnitAtPar == OrderWith(Users, {"Buy", "Sell"}, {1}, {1}, LateExpiries)

NextRegistry == CreateAsset \/ Transfer \/ AddTrade \/ OrderUnitAtPar \/ MatchAndDeal

RegistrySpec == Init /\ [][NextRegistry]_vars

(***************************************************************************)
(* MarketsSpec: two trades on the genesis asset, each against a coin that  *)
(* user 2 created, with orders of one unit at one price on both.           *)
(***************************************************************************)
CoinSupplies == {2, 3}
CoinPayloads == {[name |-> "coin", symbol |-> "C", supply |-> s] : s \in CoinSupplies}
CoinIds == {AssetDigest(p, c) : p \in CoinPayloads, c \in CreateCallers}

CreateCoin ==
    \E caller \in CreateCallers, payload \in CoinPayloads :
        /\ ExecTx("create_asset", create_asset(Store, caller, payload))
        /\ UNCHANGED placed

AddCoinTrade ==
    \E base_asset \in BaseAssets, counter_party \in CoinIds :
        /\ ExecTx("add_trade",
                  add_trade(Store,
                            [base_asset |-> base_asset, counter_party |-> counter_party]))
        /\ UNCHANGED placed

NextMarkets == CreateCoin \/ AddCoinTrade \/ OrderUnitAtPar \/ MatchAndDeal

MarketsSpec == InitAsset /\ [][NextMarkets]_vars

(***************************************************************************)
(* Definitions shared by the properties.                                   *)
(***************************************************************************)
RECURSIVE SumFn(_)
SumFn(f) ==
    IF DOMAIN f = {} THEN 0
    ELSE LET x == CHOOSE y \in DOMAIN f : TRUE IN
         f[x] + SumFn([y \in DOMAIN f \ {x} |-> f[y]])

\* what all users hold of asset a: current plus locked
Held(bal, a) == SumFn([u \in Users |-> bal[<<u, a>>].current + bal[<<u, a>>].locked])

AtBlockBoundary ==
    last.code = Succeed /\ last.op \in {"init_genesis", "match_and_deal"}

\* the last step was a run of the hook that completed
HookCompleted == last.op = "match_and_deal" /\ last.code = Succeed

\* a run of the hook is on record and it did not panic
HookOnRecord == settles.height > 0 /\ ~settles.panic

Dealt(o) ==
    CASE o.status.tag = "Fresh" -> 0
      [] o.status.tag = "Partial" -> o.status.v
      [] o.status.tag = "Full" -> o.amount

\* the successful settlements of the last run of the hook
Deals == {i \in 1..Len(settles.log) : settles.log[i].code = Succeed}

(***************************************************************************)
(* C1  Asset conservation: at every block boundary, for every asset, the   *)
(* sum over all users of current + locked equals the asset's supply.       *)
(***************************************************************************)
C1_AssetConservation ==
    AtBlockBoundary => \A a \in DOMAIN assets : Held(balances, a) = assets[a].supply

(***************************************************************************)
(* C2  A settlement that returns an error leaves every balance as it was   *)
(* before that settlement started.                                         *)
(***************************************************************************)
C2_FailedSettlementLeavesBalances ==
    \A i \in 1..Len(settles.log) :
        settles.log[i].code # Succeed => settles.log[i].after = settles.log[i].before

(***************************************************************************)
(* C3  Price-time priority: when an order settles during a run of the      *)
(* hook, every other order of its side that was live after the sweep and   *)
(* has priority over it (a better price, or the same price and a smaller   *)
(* submission height) has settled before it in that run.                   *)
(***************************************************************************)
HasPriority(o2, o) ==
    \/ o2.price = o.price /\ o2.height < o.height
    \/ o.kind = "Buy" /\ o2.price > o.price
    \/ o.kind = "Sell" /\ o2.price < o.price

SettlesInOrder(side, book) ==
    \A i \in Deals :
        LET o == settles.log[i][side] IN
        \A k \in DOMAIN book \ {o.tx_hash} :
            HasPriority(book[k], o) =>
                \E j \in Deals : j < i /\ settles.log[j][side].tx_hash = k

C3_PriceTimePriority ==
    HookOnRecord =>
        /\ SettlesInOrder("buy", settles.swept.buy_orders)
        /\ SettlesInOrder("sell", settles.swept.sell_orders)

(***************************************************************************)
(* C4  No crossed book after matching: after every completed run of the    *)
(* hook no buy order has a price >= the price of a sell order.             *)
(***************************************************************************)
C4_NoCrossedBook ==
    HookCompleted =>
        \A b \in DOMAIN buy_orders, s \in DOMAIN sell_orders :
            buy_orders[b].price < sell_orders[s].price

(***************************************************************************)
(* C5  Expiry refund: the sweep moves every order with expiry < height     *)
(* from its live book to history_orders and unlocks, for its owner,        *)
(* (amount - dealt) * price of the base asset for a buy and                *)
(* (amount - dealt) of the counter party for a sell.                       *)
(***************************************************************************)
ExpiredIn(m, h) == {k \in DOMAIN m : m[k].expiry < h}

ExpectedRefund(pre, h, u, a) ==
    SumFn([k \in {x \in ExpiredIn(pre.buy_orders, h) :
                    /\ pre.buy_orders[x].user = u
                    /\ pre.trades[pre.buy_orders[x].trade_id].base_asset = a}
             |-> (pre.buy_orders[k].amount - Dealt(pre.buy_orders[k]))
                 * pre.buy_orders[k].price])
    + SumFn([k \in {x \in ExpiredIn(pre.sell_orders, h) :
                      /\ pre.sell_orders[x].user = u
                      /\ pre.trades[pre.sell_orders[x].trade_id].counter_party = a}
               |-> pre.sell_orders[k].amount - Dealt(pre.sell_orders[k])])

C5_ExpiryRefund ==
    HookOnRecord =>
        LET pre == settles.pre
            swept == settles.swept
            h == settles.height
        IN  /\ \A k \in ExpiredIn(pre.buy_orders, h) :
                 /\ k \notin DOMAIN swept.buy_orders
                 /\ k \in DOMAIN swept.history_orders
                 /\ swept.history_orders[k] = pre.buy_orders[k]
            /\ \A k \in ExpiredIn(pre.sell_orders, h) :
                 /\ k \notin DOMAIN swept.sell_orders
                 /\ k \in DOMAIN swept.history_orders
                 /\ swept.history_orders[k] = pre.sell_orders[k]
            /\ \A u \in Users, a \in AssetIds :
                 /\ swept.balances[<<u, a>>].current =
                        pre.balances[<<u, a>>].current + ExpectedRefund(pre, h, u, a)
                 /\ swept.balances[<<u, a>>].locked =
                        pre.balances[<<u, a>>].locked - ExpectedRefund(pre, h, u, a)

(***************************************************************************)
(* C6  Settlement conservation, buyer side.  For a settlement that         *)
(* succeeded between a buyer B and a seller S, B # S, the balances of B    *)
(* before and after it are compared.                                       *)
(***************************************************************************)
\* a successful settlement of the last run of the hook between two users
DealsBetweenTwo == {i \in Deals : settles.log[i].buy.user # settles.log[i].sell.user}

BaseOf(e) == settles.pre.trades[e.buy.trade_id].base_asset
CounterOf(e) == settles.pre.trades[e.buy.trade_id].counter_party

DeltaCurrent(e, u, a) == e.after[<<u, a>>].current - e.before[<<u, a>>].current
DeltaLocked(e, u, a) == e.after[<<u, a>>].locked - e.before[<<u, a>>].locked

\* C6 as stated: the settlement nets to current[B, base] - q*p,
\* current[B, counter] + q and locked[B, base] - q*pb.
C6_BuyerSideAsStated ==
    \A i \in DealsBetweenTwo :
        LET e == settles.log[i] IN
        /\ DeltaCurrent(e, e.buy.user, BaseOf(e)) = 0 - e.amount * e.price
        /\ DeltaCurrent(e, e.buy.user, CounterOf(e)) = e.amount
        /\ DeltaLocked(e, e.buy.user, BaseOf(e)) = 0 - e.amount * e.buy.price

\* C6 amended: with L = q*pb and C = q*p as the code computes them in u64, the
\* settlement nets to locked[B, base] - L, current[B, base] + L - C and
\* current[B, counter] + q; no other balance of B changes.
C6_BuyerSide ==
    \A i \in DealsBetweenTwo :
        LET e == settles.log[i]
            L == Wrap(e.amount * e.buy.price)
            C == Wrap(e.amount * e.price)
        IN  /\ DeltaLocked(e, e.buy.user, BaseOf(e)) = 0 - L
            /\ DeltaCurrent(e, e.buy.user, BaseOf(e)) = L - C
            /\ DeltaCurrent(e, e.buy.user, CounterOf(e)) = e.amount
            /\ DeltaLocked(e, e.buy.user, CounterOf(e)) = 0

\* a settlement between two users succeeded below the buyer's reserved price
C6_Witness ==
    \E i \in DealsBetweenTwo :
        /\ settles.log[i].price < settles.log[i].buy.price
        /\ settles.log[i].price > 0

(***************************************************************************)
(* C7  Settlement conservation, seller side: a settlement that succeeded   *)
(* between a buyer B and a seller S, B # S, for q units at price p nets to *)
(* current[S, base] + q*p, locked[S, counter] - q and current[S, counter]  *)
(* unchanged, and what B and S hold together of base and of counter        *)
(* (current plus locked) is unchanged.                                     *)
(***************************************************************************)
HeldByPair(bal, e, a) ==
    bal[<<e.buy.user, a>>].current + bal[<<e.buy.user, a>>].locked
    + bal[<<e.sell.user, a>>].current + bal[<<e.sell.user, a>>].locked

C7_SellerSide ==
    \A i \in DealsBetweenTwo :
        LET e == settles.log[i] IN
        /\ DeltaCurrent(e, e.sell.user, BaseOf(e)) = e.amount * e.price
        /\ DeltaLocked(e, e.sell.user, CounterOf(e)) = 0 - e.amount
        /\ DeltaCurrent(e, e.sell.user, CounterOf(e)) = 0
        /\ HeldByPair(e.after, e, BaseOf(e)) = HeldByPair(e.before, e, BaseOf(e))
        /\ HeldByPair(e.after, e, CounterOf(e)) = HeldByPair(e.before, e, CounterOf(e))

(***************************************************************************)
(* C8  Price improvement is refunded.  A Buy order (price pb, amount q) of *)
(* B is filled in a completed run of the hook by one deal of q units at    *)
(* price p <= pb with a seller S # B; nothing else touched B's balances    *)
(* between the order and that run, and B takes part in no other settlement *)
(* of it.  Then, against the balances before B placed the order, B's       *)
(* current[base] is q*p lower, B's current[counter] is q higher and B's    *)
(* locked[base] is the same; the seller's current[base] is q*p higher.     *)
(***************************************************************************)
\* the balances of user u are the same in bal1 and bal2
SameBalancesOf(u, bal1, bal2) == \A a \in AssetIds : bal1[<<u, a>>] = bal2[<<u, a>>]

\* settlement i of the last run fills a Fresh buy order in one deal, and that
\* deal is all that happened to the buyer since the order was accepted
FilledInOneDeal(i) ==
    LET e == settles.log[i]
        B == e.buy.user
    IN  /\ e.buy.status = Fresh
        /\ e.amount = e.buy.amount
        /\ e.price <= e.buy.price
        /\ SameBalancesOf(B, placed[e.buy.tx_hash].after, settles.pre.balances)
        /\ SameBalancesOf(B, settles.pre.balances, settles.swept.balances)
        /\ \A j \in (1..Len(settles.log)) \ {i} :
               settles.log[j].buy.user # B /\ settles.log[j].sell.user # B

C8_PriceImprovementRefunded ==
    HookCompleted =>
        \A i \in DealsBetweenTwo :
            FilledInOneDeal(i) =>
                LET e == settles.log[i]
                    B == e.buy.user
                    was == placed[e.buy.tx_hash].before
                IN  /\ balances[<<B, BaseOf(e)>>].current =
                           was[<<B, BaseOf(e)>>].current - e.amount * e.price
                    /\ balances[<<B, CounterOf(e)>>].current =
                           was[<<B, CounterOf(e)>>].current + e.amount
                    /\ balances[<<B, BaseOf(e)>>].locked = was[<<B, BaseOf(e)>>].locked
                    /\ DeltaCurrent(e, e.sell.user, BaseOf(e)) = e.amount * e.price

(***************************************************************************)
(* C9  A successful order by caller U at height h in the transaction with  *)
(* hash t inserts exactly one order under t (Fresh, no deals, height h,    *)
(* user U) into buy_orders for a Buy, after moving amount*price of the     *)
(* base asset from U's current to U's locked balance, and into sell_orders *)
(* for a Sell, after moving amount of the counter party; no other balance  *)
(* and no other order changes.                                             *)
(***************************************************************************)
OrderAccepted == DOMAIN placed' # DOMAIN placed

C9_OrderEffect ==
    [][OrderAccepted =>
         LET t == CHOOSE k \in DOMAIN placed' : k \notin DOMAIN placed
             ctx == placed'[t].ctx
             payload == placed'[t].payload
             T == trades[payload.trade_id]
             U == ctx.caller
             is_buy == payload.kind = "Buy"
             asset == IF is_buy THEN T.base_asset ELSE T.counter_party
             moved == IF is_buy THEN payload.amount * payload.price ELSE payload.amount
             new_order == [trade_id |-> payload.trade_id, tx_hash |-> t,
                           kind |-> payload.kind, price |-> payload.price,
                           amount |-> payload.amount, height |-> ctx.height,
                           user |-> U, expiry |-> payload.expiry, status |-> Fresh,
                           deals |-> <<>>]
         IN  /\ t = ctx.tx_hash
             /\ ctx.height = height
             /\ t \notin DOMAIN buy_orders \cup DOMAIN sell_orders
             /\ buy_orders' = IF is_buy THEN MapInsert(buy_orders, t, new_order)
                                        ELSE buy_orders
             /\ sell_orders' = IF is_buy THEN sell_orders
                                         ELSE MapInsert(sell_orders, t, new_order)
             /\ history_orders' = history_orders
             /\ balances' = [balances EXCEPT ![<<U, asset>>] =
                                [current |-> @.current - moved,
                                 locked |-> @.locked + moved]]
      ]_vars

(***************************************************************************)
(* C10  A Buy order whose amount*price does not fit in u64 is answered     *)
(* with U64Overflow and leaves the store as it was, and the escrow locked  *)
(* for every accepted Buy order is the product amount*price.               *)
(***************************************************************************)
C10_OverflowingBuyRejected ==
    /\ \A caller \in Users, trade_id \in DOMAIN trades,
          price \in Prices, amount \in Amounts :
            Overflows(amount * price) =>
                LET out == order(Store, overflow_checks, validity,
                                 [caller |-> caller, height |-> height,
                                  tx_hash |-> NextTxHash],
                                 [trade_id |-> trade_id, kind |-> "Buy", price |-> price,
                                  amount |-> amount, expiry |-> height])
                IN  out.code = AssetErrorCode("U64Overflow") /\ out.st = Store
    /\ \A t \in DOMAIN placed :
            placed[t].payload.kind = "Buy" =>
                LET key == <<placed[t].ctx.caller,
                             trades[placed[t].payload.trade_id].base_asset>>
                IN  placed[t].after[key].locked - placed[t].before[key].locked
                        = placed[t].payload.amount * placed[t].payload.price

(***************************************************************************)
(* C11  Status monotonicity: in every step every order on record stays on  *)
(* record and is either untouched or dealt: a dealt order was not Full, is *)
(* not Fresh afterwards and its dealt amount has strictly grown (Fresh ->  *)
(* Partial(k) -> Partial(k') -> Full, k < k'); Partial(d) has d < amount.  *)
(***************************************************************************)
OrderKeys(b, s, h) == DOMAIN b \cup DOMAIN s \cup DOMAIN h

OrderIn(b, s, h, t) == IF t \in DOMAIN b THEN b[t] ELSE IF t \in DOMAIN s THEN s[t] ELSE h[t]

StatusAdvances(o, o2) ==
    \/ o2.status = o.status /\ o2.deals = o.deals
    \/ /\ Len(o2.deals) > Len(o.deals)
       /\ o.status # Full
       /\ o2.status # Fresh
       /\ Dealt(o2) > Dealt(o)

PartialBelowAmount(o) == o.status.tag = "Partial" => o.status.v < o.amount

C11_StatusMonotonic ==
    [][\A t \in OrderKeys(buy_orders, sell_orders, history_orders) :
         /\ t \in OrderKeys(buy_orders', sell_orders', history_orders')
         /\ StatusAdvances(OrderIn(buy_orders, sell_orders, history_orders, t),
                           OrderIn(buy_orders', sell_orders', history_orders', t))
         /\ PartialBelowAmount(OrderIn(buy_orders', sell_orders', history_orders', t))
      ]_vars

\* an order has been filled twice and is still Partial
C11_Witness ==
    \E t \in OrderKeys(buy_orders, sell_orders, history_orders) :
        LET o == OrderIn(buy_orders, sell_orders, history_orders, t) IN
        o.status.tag = "Partial" /\ Len(o.deals) = 2

(***************************************************************************)
(* C12  Expiry guard: every order accepted at submission height h has      *)
(* expiry <= h + validity as a sum of naturals, and every live order has   *)
(* expiry <= height + validity.                                            *)
(***************************************************************************)
C12_ExpiryGuard ==
    /\ \A t \in DOMAIN placed :
          placed[t].payload.expiry <= placed[t].ctx.height + validity
    /\ \A t \in DOMAIN buy_orders : buy_orders[t].expiry <= height + validity
    /\ \A t \in DOMAIN sell_orders : sell_orders[t].expiry <= height + validity

\* an order was accepted although height + validity does not fit in u64
C12_Witness ==
    \E t \in DOMAIN placed :
        /\ placed[t].ctx.height + validity > MaxU64
        /\ t \in DOMAIN buy_orders

(***************************************************************************)
(* C13  Capability gate: a facade call whose extra is not the admission    *)
(* token (absent, or another byte string) is answered PermissionDenial     *)
(* (106) and leaves every balance unchanged.                               *)
(***************************************************************************)
FacadeOps == {"lock", "unlock", "add_value", "sub_value"}

C13_CapabilityGate ==
    (last.op \in FacadeOps /\ last.args.extra # ADMISSION_TOKEN) =>
        /\ last.code = AssetErrorCode("PermissionDenial")
        /\ balances = last.before

(***************************************************************************)
(* C14  All-or-nothing ledger operations: an admitted lock, unlock,        *)
(* add_value or sub_value either applies its whole effect to the one       *)
(* balance it names, or answers AssetNotExist, InsufficientBalance or      *)
(* U64Overflow and leaves every balance as it was; no balance field ever   *)
(* holds a wrapped value.                                                  *)
(***************************************************************************)
Admitted(op) == last.op = op /\ last.args.extra = ADMISSION_TOKEN

Account == <<last.args.user, last.args.asset_id>>

WholeEffect(op, b, v) ==
    CASE op = "add_value" -> [current |-> b.current + v, locked |-> b.locked]
      [] op = "sub_value" -> [current |-> b.current - v, locked |-> b.locked]
      [] op = "lock" -> [current |-> b.current - v, locked |-> b.locked + v]
      [] op = "unlock" -> [current |-> b.current + v, locked |-> b.locked - v]

LedgerErrors ==
    {AssetErrorCode("AssetNotExist"), AssetErrorCode("InsufficientBalance"),
     AssetErrorCode("U64Overflow")}

C14_AllOrNothing ==
    /\ \A k \in DOMAIN balances : balances[k].current \in U64 /\ balances[k].locked \in U64
    /\ \A op \in FacadeOps :
          Admitted(op) =>
              IF last.code = Succeed
              THEN balances = [last.before EXCEPT
                                 ![Account] = WholeEffect(op, @, last.args.value)]
              ELSE last.code \in LedgerErrors /\ balances = last.before

\* a credit that would pass the largest u64 was answered U64Overflow
C14_Witness ==
    /\ Admitted("add_value")
    /\ last.code = AssetErrorCode("U64Overflow")
    /\ last.before[Account].current + last.args.value > MaxU64

(***************************************************************************)
(* C15  Lock/unlock algebra.  As stated: lock(u, a, v) on an existing      *)
(* asset with current >= v moves exactly v from current to locked, and     *)
(* unlock(u, a, v) with locked >= v moves exactly v back.                  *)
(***************************************************************************)
Moved(from, to) ==
    /\ last.code = Succeed
    /\ balances[Account][from] = last.before[Account][from] - last.args.value
    /\ balances[Account][to] = last.before[Account][to] + last.args.value
    /\ balances[Account].current + balances[Account].locked
         = last.before[Account].current + last.before[Account].locked
    /\ \A k \in DOMAIN balances \ {Account} : balances[k] = last.before[k]

Movable(op, from) ==
    /\ Admitted(op)
    /\ last.args.asset_id \in DOMAIN assets
    /\ last.before[Account][from] >= last.args.value

Untouched(code) == last.code = code /\ balances = last.before

C15_LockUnlockAsStated ==
    /\ Movable("lock", "current") => Moved("current", "locked")
    /\ Movable("unlock", "locked") => Moved("locked", "current")

(***************************************************************************)
(* C15 (amended)  The move happens when the receiving field can take v     *)
(* without passing the largest u64; otherwise the call answers             *)
(* U64Overflow and the balance is untouched.  A move keeps current +       *)
(* locked, touches no other balance, and an unlock of the same value after *)
(* a lock restores the balance.                                            *)
(***************************************************************************)
Fits(to) == last.before[Account][to] + last.args.value <= MaxU64

Restores(r) == r.code = Succeed /\ r.bal = last.before

C15_LockUnlock ==
    /\ Movable("lock", "current") =>
          IF Fits("locked")
          THEN /\ Moved("current", "locked")
               /\ Restores(unlock(assets, balances, ADMISSION_TOKEN, last.args.user,
                                   last.args.asset_id, last.args.value))
          ELSE Untouched(AssetErrorCode("U64Overflow"))
    /\ Movable("unlock", "locked") =>
          IF Fits("current")
          THEN Moved("locked", "current")
          ELSE Untouched(AssetErrorCode("U64Overflow"))

C15_Witness ==
    /\ Movable("lock", "current")
    /\ last.code = Succeed
    /\ last.before[Account].locked > 0
    /\ balances # last.before

(***************************************************************************)
(* C16  Partial-fill monotonicity: every turn of the match loop on a pair  *)
(* with buy price >= sell price deals q = min(buy left, sell left); an     *)
(* order whose left equals q becomes Full, leaves its live book and is     *)
(* inserted into history_orders; the other becomes Partial(prior + q) and  *)
(* stays live; both receive the same Deal(deal_price, q).                  *)
(***************************************************************************)
MinOf(x, y) == IF x <= y THEN x ELSE y

LastDeal(o) == o.deals[Len(o.deals)]

FilledBy(e, o, live) ==
    /\ o.tx_hash \notin DOMAIN live
    /\ o.tx_hash \in DOMAIN e.books.history_orders
    /\ e.books.history_orders[o.tx_hash].status = Full
    /\ e.books.history_orders[o.tx_hash].deals = Append(o.deals, Deal(e.price, e.amount))

PartlyFilledBy(e, o, live) ==
    /\ o.tx_hash \in DOMAIN live
    /\ o.tx_hash \notin DOMAIN e.books.history_orders
    /\ live[o.tx_hash].status = Partial(Dealt(o) + e.amount)
    /\ live[o.tx_hash].deals = Append(o.deals, Deal(e.price, e.amount))

FillOf(e, o, live) ==
    IF LeftOf(o) = e.amount THEN FilledBy(e, o, live) ELSE PartlyFilledBy(e, o, live)

TurnFills(e) ==
    /\ e.buy.price >= e.sell.price
    /\ e.amount = MinOf(LeftOf(e.buy), LeftOf(e.sell))
    /\ FillOf(e, e.buy, e.books.buy_orders)
    /\ FillOf(e, e.sell, e.books.sell_orders)

C16_PartialFill == \A i \in 1..Len(settles.log) : TurnFills(settles.log[i])

\* the same over the turns whose settlement answered Succeed
C16_SettledTurnsFill == \A i \in Deals : TurnFills(settles.log[i])

(***************************************************************************)
(* C17  Mid-price rule: the deal price of every pair the loop settles is   *)
(* floor((buy price + sell price) / 2), for all u64 prices.                *)
(***************************************************************************)
MidPrice(pb, ps) == (pb + ps) \div 2

C17_MidPrice ==
    \A i \in 1..Len(settles.log) :
        settles.log[i].price = MidPrice(settles.log[i].buy.price, settles.log[i].sell.price)

(***************************************************************************)
(* C18  Matching terminates on uncrossed books: when, after the expiry     *)
(* sweep, the best buy price is below the best sell price, the hook        *)
(* settles nothing: both books, the history and every balance are as the   *)
(* sweep left them.                                                        *)
(***************************************************************************)
PricesOf(m) == {m[k].price : k \in DOMAIN m}

BestBuy(m) == CHOOSE p \in PricesOf(m) : \A q \in PricesOf(m) : q <= p

BestSell(m) == CHOOSE p \in PricesOf(m) : \A q \in PricesOf(m) : p <= q

SweptUncrossed ==
    /\ HookCompleted
    /\ DOMAIN settles.swept.buy_orders # {}
    /\ DOMAIN settles.swept.sell_orders # {}
    /\ BestBuy(settles.swept.buy_orders) < BestSell(settles.swept.sell_orders)

C18_UncrossedBooksStop ==
    SweptUncrossed =>
        /\ settles.log = <<>>
        /\ buy_orders = settles.swept.buy_orders
        /\ sell_orders = settles.swept.sell_orders
        /\ history_orders = settles.swept.history_orders
        /\ balances = settles.swept.balances

\* an uncrossed pair of books with escrow in them went through the hook
C18_Witness ==
    /\ SweptUncrossed
    /\ \E k \in DOMAIN balances : balances[k].locked > 0
    /\ Cardinality(DOMAIN buy_orders) + Cardinality(DOMAIN sell_orders) = MaxOrders

(***************************************************************************)
(* C19  Idempotent expiry sweep: sweeping again at the same height, right  *)
(* after the hook's sweep, changes nothing (no order is moved and no       *)
(* balance is refunded a second time), in whatever order the books are     *)
(* iterated.                                                               *)
(***************************************************************************)
SweptAgain(buy_iter, sell_iter) ==
    remove_expiry_orders(settles.swept, overflow_checks, settles.height, buy_iter, sell_iter)

C19_SweepIdempotent ==
    HookOnRecord =>
        \A buy_iter \in Iterations(settles.swept.buy_orders),
           sell_iter \in Iterations(settles.swept.sell_orders) :
            SweptAgain(buy_iter, sell_iter) = [panic |-> FALSE, st |-> settles.swept]

\* the hook's sweep expired an order, refunded escrow, and left an order live
C19_Witness ==
    /\ HookOnRecord
    /\ DOMAIN settles.swept.history_orders # DOMAIN settles.pre.history_orders
    /\ settles.swept.balances # settles.pre.balances
    /\ DOMAIN settles.swept.buy_orders \cup DOMAIN settles.swept.sell_orders # {}

(***************************************************************************)
(* C20  Trade admission: add_trade(x, y) and add_trade(y, x) compute the   *)
(* same trade id, so the second of the two is answered TradeExisted (203); *)
(* add_trade(x, x) is answered IllegalTrade (202) and inserts nothing; at  *)
(* most one trade exists per unordered pair of assets and every stored     *)
(* trade has base_asset # counter_party.                                   *)
(***************************************************************************)
PairOf(t) == {t.base_asset, t.counter_party}

TradePayload(x, y) == [base_asset |-> x, counter_party |-> y]

Refused(out, code, st) == out.code = code /\ out.st = st /\ out.events = <<>>

RefusedAfter(a, x, y) ==
    a.code = Succeed =>
        /\ Refused(add_trade(a.st, TradePayload(y, x)), DexErrorCode("TradeExisted"), a.st)
        /\ Refused(add_trade(a.st, TradePayload(x, y)), DexErrorCode("TradeExisted"), a.st)

GuardPayloads ==
    {[trade_id |-> t, kind |-> k, price |-> 1, amount |-> 1, expiry |-> e] :
        t \in OrderTradeIds, k \in {"Buy", "Sell"}, e \in U64}

GuardedAs(out, payload) ==
    IF payload.trade_id \notin DOMAIN trades
    THEN Refused(out, DexErrorCode("TradeNotExisted"), Store)
    ELSE payload.expiry > height + validity =>
             Refused(out, DexErrorCode("OrderOverdue"), Store)

AnsweredAs(payload) ==
    IF payload.trade_id \notin DOMAIN trades
    THEN last.code = DexErrorCode("TradeNotExisted") /\ last.events = <<>>
    ELSE payload.expiry > last.args.ctx.height + validity =>
             last.code = DexErrorCode("OrderOverdue") /\ last.events = <<>>

C21_OrderGuards ==
    /\ \A payload \in GuardPayloads :
          GuardedAs(order(Store, overflow_checks, validity,
                          [caller |-> 1, height |-> height, tx_hash |-> NextTxHash],
                          payload),
                    payload)
    /\ last.op = "order" =>
          /\ AnsweredAs(last.args.payload)
          /\ last.code # Succeed => last.args.ctx.tx_hash \notin DOMAIN placed

\* an order both on a trade not admitted and overdue was answered 204, and an
\* admitted trade is not needed for that
C21_Witness ==
    /\ last.op = "order"
    /\ last.code = DexErrorCode("TradeNotExisted")
    /\ last.args.payload.expiry > last.args.ctx.height + validity

\* an overdue order on an admitted trade was answered 205
C21_WitnessOverdue ==
    /\ last.op = "order"
    /\ last.code = DexErrorCode("OrderOverdue")
    /\ last.args.payload.trade_id \in DOMAIN trades

(***************************************************************************)
(* C22  Transfer: transfer(asset, to, v) by a caller whose current balance *)
(* of the asset is at least v takes v from the caller's current and adds v *)
(* to the current of to, leaves every locked balance and every other       *)
(* balance as it was and emits TransferAsset; with current < v it answers  *)
(* InsufficientBalance (104), even when current + locked >= v, and changes *)
(* nothing.                                                                *)
(***************************************************************************)
TransferPayloads ==
    {[asset_id |-> a, to |-> u, value |-> v] :
        a \in DOMAIN assets, u \in Users, v \in TransferAmounts}

Transferred(caller, payload) ==
    [[balances EXCEPT ![<<caller, payload.asset_id>>].current = @ - payload.value]
        EXCEPT ![<<payload.to, payload.asset_id>>].current = @ + payload.value]

TransferEvent(caller, payload) ==
    Event("TransferAsset", [asset_id |-> payload.asset_id, from |-> caller,
                            to |-> payload.to, value |-> payload.value])

TransfersAs(out, caller, payload) ==
    IF balances[<<caller, payload.asset_id>>].current >= payload.value
    THEN /\ out.code = Succeed
         /\ out.st = [Store EXCEPT !.balances = Transferred(caller, payload)]
         /\ \A k \in DOMAIN balances : out.st.balances[k].locked = balances[k].locked
         /\ out.events = <<TransferEvent(caller, payload)>>
    ELSE Refused(out, AssetErrorCode("InsufficientBalance"), Store)

C22_WitnessLocked ==
    /\ last.op = "transfer"
    /\ last.code = AssetErrorCode("InsufficientBalance")
    /\ balances[<<last.args.caller, last.args.payload.asset_id>>].current
         + balances[<<last.args.caller, last.args.payload.asset_id>>].locked
         >= last.args.payload.value

(***************************************************************************)
(* C23  create_asset: the same payload submitted again by the same caller  *)
(* answers AssetExisted (102) and changes no asset and no balance;         *)
(* submitted by another caller it succeeds under another id; each success  *)
(* inserts the asset and credits the caller with current = supply and      *)
(* locked = 0 of it.                                                       *)
(***************************************************************************)
Created(caller, payload) ==
    [Store EXCEPT
       !.assets = MapInsert(assets, AssetDigest(payload, caller),
                            Asset(AssetDigest(payload, caller), payload.name,
                                  payload.symbol, payload.supply, caller)),
       !.balances = [balances EXCEPT ![<<caller, AssetDigest(payload, caller)>>] =
                        [current |-> payload.supply, locked |-> 0]]]

CreatedByOthers(st, caller, payload) ==
    \A other \in Users \ {caller} :
        /\ AssetDigest(payload, other) # AssetDigest(payload, caller)
        /\ AssetDigest(payload, other) \notin DOMAIN st.assets =>
              /\ create_asset(st, other, payload).code = Succeed
              /\ AssetDigest(payload, other)
                   \in DOMAIN create_asset(st, other, payload).st.assets

CreatesAs(out, caller, payload) ==
    IF AssetDigest(payload, caller) \in DOMAIN assets
    THEN Refused(out, AssetErrorCode("AssetExisted"), Store)
    ELSE /\ out.code = Succeed
         /\ out.st = Created(caller, payload)
         /\ out.st.balances[<<caller, AssetDigest(payload, caller)>>]
              = [current |-> payload.supply, locked |-> 0]
         /\ Refused(create_asset(out.st, caller, payload),
                    AssetErrorCode("AssetExisted"), out.st)
         /\ CreatedByOthers(out.st, caller, payload)

C23_CreateAsset ==
    /\ \A caller \in Users, payload \in WidePayloads :
          CreatesAs(create_asset(Store, caller, payload), caller, payload)
    /\ last.op = "create_asset" =>
          /\ last.code \in {Succeed, AssetErrorCode("AssetExisted")}
          /\ AssetDigest(last.args.payload, last.args.caller) \in DOMAIN assets
          /\ assets[AssetDigest(last.args.payload, last.args.caller)].issuer
               = last.args.caller

\* a payload that both users had submitted was submitted again and refused
C23_Witness ==
    /\ last.op = "create_asset"
    /\ last.code = AssetErrorCode("AssetExisted")
    /\ \A c \in Users : AssetDigest(last.args.payload, c) \in DOMAIN assets

(***************************************************************************)
(* C24  get_asset of an id that is not in assets answers AssetNotExist     *)
(* (103).                                                                  *)
(***************************************************************************)
C24_GetAssetMiss ==
    (last.op = "get_asset" /\ last.args.id \notin DOMAIN assets)
        => last.code = AssetErrorCode("AssetNotExist")

(***************************************************************************)
(* C25  get_order(tx_hash) answers the order with deal_status Dealing      *)
(* exactly when it is in buy_orders or sell_orders, with Dealt exactly     *)
(* when it is in history_orders, and OrderNotExisted (206) when it is in   *)
(* none; every accepted order is found, whatever orders and hooks          *)
(* followed.                                                               *)
(***************************************************************************)
Live == DOMAIN buy_orders \cup DOMAIN sell_orders

StoredOrder(t) ==
    IF t \in DOMAIN buy_orders THEN buy_orders[t]
    ELSE IF t \in DOMAIN sell_orders THEN sell_orders[t]
    ELSE history_orders[t]

FoundAs(r, t) ==
    /\ (r.code = Succeed /\ r.deal_status = "Dealing") <=> t \in Live
    /\ (r.code = Succeed /\ r.deal_status = "Dealt") <=> t \in DOMAIN history_orders
    /\ r.code = DexErrorCode("OrderNotExisted") <=> t \notin Live \cup DOMAIN history_orders
    /\ r.code \in {Succeed, DexErrorCode("OrderNotExisted")}
    /\ r.code = Succeed => r.order = StoredOrder(t) /\ r.order.tx_hash = t
    /\ t \in DOMAIN placed => r.code = Succeed

C25_GetOrder ==
    /\ \A t \in TxHashes : FoundAs(get_order(Store, t), t)
    /\ last.op = "get_order" =>
          last.code = get_order(Store, last.args.tx_hash).code

\* one order was looked up and found live while another is in the history
C25_Witness ==
    /\ last.op = "get_order"
    /\ last.code = Succeed
    /\ last.args.tx_hash \in DOMAIN sell_orders
    /\ sell_orders[last.args.tx_hash].status.tag = "Partial"
    /\ DOMAIN history_orders # {}

(***************************************************************************)
(* C26  Asset and trade records are immutable: no step changes or removes  *)
(* the record of an asset (its supply in particular) or of a trade; the    *)
(* only step that adds a trade is an accepted add_trade, which adds the    *)
(* trade of its event, so get_trades answers exactly the trades admitted   *)
(* so far.                                                                 *)
(***************************************************************************)
Kept(m, m2) == \A k \in DOMAIN m : k \in DOMAIN m2 /\ m2[k] = m[k]

StoreNext ==
    [assets |-> assets', balances |-> balances', trades |-> trades',
     buy_orders |-> buy_orders', sell_orders |-> sell_orders',
     history_orders |-> history_orders']

TradeAdmitted == last'.op = "add_trade" /\ last'.code = Succeed /\ trades' # trades

RecordsKept ==
    /\ Kept(assets, assets')
    /\ Kept(trades, trades')
    /\ get_trades(StoreNext)
         = IF TradeAdmitted
           THEN get_trades(Store) \cup {last'.events[1].data}
           ELSE get_trades(Store)
    /\ last'.op # "create_asset" => assets' = assets

C26_RecordsImmutable == [][RecordsKept]_vars

\* both assets and the trade are on record after a transfer that followed a deal
C26_Witness ==
    /\ last.op = "transfer"
    /\ Deals # {}
    /\ DOMAIN trades # {}
    /\ Cardinality(DOMAIN assets) = 2
    /\ DOMAIN history_orders # {}

(***************************************************************************)
(* C27  A pair the hook skips because its settlement answered an error is  *)
(* recorded as an observable event: the hook's events hold at least one    *)
(* event per skipped pair.                                                 *)
(***************************************************************************)
Skipped == {i \in 1..Len(settles.log) : settles.log[i].code # Succeed}

C27_SkippedPairRecorded ==
    (last.op = "match_and_deal" /\ last.code = Succeed)
        => Len(last.events) >= Cardinality(Skipped)

(***************************************************************************)
(* C28  Every deal the hook makes is between a buy order and a sell order  *)
(* of the same trade, also when the books hold orders of several trades.   *)
(***************************************************************************)
C28_DealsWithinOneTrade ==
    \A i \in Deals : settles.log[i].buy.trade_id = settles.log[i].sell.trade_id

(***************************************************************************)
(* C29  The state the hook leaves (both books, the history and every       *)
(* balance) does not depend on the order in which the store iterates       *)
(* buy_orders and sell_orders: under every other iteration order the hook  *)
(* just run would have left the same state.                                *)
(***************************************************************************)
HookUnder(buy_iter, sell_iter) ==
    match_and_deal(settles.pre, overflow_checks, settles.height, buy_iter, sell_iter)

SameOutcome(m) == ~m.panic /\ m.st = Store

C29_IterationOrderIrrelevant ==
    HookCompleted =>
        \A buy_iter \in Iterations(settles.pre.buy_orders),
           sell_iter \in Iterations(settles.pre.sell_orders) :
            SameOutcome(HookUnder(buy_iter, sell_iter))

(***************************************************************************)
(* C30  The match loop terminates: every settling turn leaves fewer orders *)
(* on the two queues than it found (also when its settlement failed), the  *)
(* first turn finds the orders the sweep left and each later turn those    *)
(* the turn before it left, so the loop makes at most (buys + sells at     *)
(* loop start) settling turns.                                             *)
(***************************************************************************)
AtLoopStart ==
    Cardinality(DOMAIN settles.swept.buy_orders)
        + Cardinality(DOMAIN settles.swept.sell_orders)

QueuedAt(i) == IF i = 1 THEN AtLoopStart ELSE settles.log[i - 1].left

C30_LoopTerminates ==
    settles.height > 0 =>
        /\ Len(settles.log) <= AtLoopStart
        /\ \A i \in 1..Len(settles.log) :
              /\ settles.log[i].queued = QueuedAt(i)
              /\ settles.log[i].left < settles.log[i].queued

\* a hook made two settling turns, the second of which failed
C30_Witness ==
    /\ settles.height > 0
    /\ Len(settles.log) = 2
    /\ settles.log[2].code # Succeed
    /\ settles.log[2].left = 0

(***************************************************************************)
(* C31  A pair whose settlement fails is skipped: neither of its orders is *)
(* put back on the queues (the turn leaves two orders fewer than it        *)
(* found), and buy_orders, sell_orders and history_orders are after the    *)
(* attempt exactly what they were before it.                               *)
(***************************************************************************)
BooksOf(st) ==
    [buy_orders |-> st.buy_orders, sell_orders |-> st.sell_orders,
     history_orders |-> st.history_orders]

BooksBefore(i) == IF i = 1 THEN BooksOf(settles.swept) ELSE settles.log[i - 1].books

SkippedClean(i) ==
    /\ settles.log[i].left = settles.log[i].queued - 2
    /\ settles.log[i].books = BooksBefore(i)
    /\ BooksBefore(i).buy_orders[settles.log[i].buy.tx_hash] = settles.log[i].buy
    /\ BooksBefore(i).sell_orders[settles.log[i].sell.tx_hash] = settles.log[i].sell
    /\ \A j \in (i + 1)..Len(settles.log) :
          /\ settles.log[j].buy.tx_hash # settles.log[i].buy.tx_hash
          /\ settles.log[j].sell.tx_hash # settles.log[i].sell.tx_hash

C31_FailedPairSkipped == \A i \in Skipped : SkippedClean(i)

\* a settlement failed in the turn after one that had changed the books
C31_Witness ==
    /\ HookCompleted
    /\ 2 \in Skipped
    /\ 1 \in Deals
    /\ BooksBefore(2) # BooksOf(settles.swept)
    /\ BooksOf(Store) = settles.log[2].books

(***************************************************************************)
(* C32  No order with status Full is in buy_orders or sell_orders, and     *)
(* every Partial(v) order there has v < amount; so the hook never reaches  *)
(* the unreachable!() arms of the loop or the panic arms of settle_buyer   *)
(* and settle_seller, and amount - v never underflows.                     *)
(***************************************************************************)
LiveOrders ==
    {buy_orders[k] : k \in DOMAIN buy_orders} \cup {sell_orders[k] : k \in DOMAIN sell_orders}

C32_NoFullOrderLive ==
    /\ \A o \in LiveOrders :
          /\ o.status # Full
          /\ o.status.tag = "Partial" => o.status.v < o.amount
          /\ LeftOf(o) \in 0..o.amount
          /\ UnlockAmount(o) \in U64
    /\ ~Halted

\* a partly filled order is live after a hook that filled another order
C32_Witness ==
    /\ HookCompleted
    /\ \E o \in LiveOrders : o.status.tag = "Partial"
    /\ \E k \in DOMAIN history_orders : history_orders[k].status = Full

(***************************************************************************)
(* C33  Escrow accounting: at every block boundary locked[u, a] is the sum *)
(* of (amount - dealt) * price over the orders of u in buy_orders on       *)
(* trades with base_asset a, plus the sum of (amount - dealt) over the     *)
(* orders of u in sell_orders on trades with counter_party a.              *)
(***************************************************************************)
BuysEscrowing(u, a) ==
    {k \in DOMAIN buy_orders :
        buy_orders[k].user = u /\ trades[buy_orders[k].trade_id].base_asset = a}

SellsEscrowing(u, a) ==
    {k \in DOMAIN sell_orders :
        sell_orders[k].user = u /\ trades[sell_orders[k].trade_id].counter_party = a}

Escrow(u, a) ==
    SumFn([k \in BuysEscrowing(u, a) |->
             (buy_orders[k].amount - Dealt(buy_orders[k])) * buy_orders[k].price])
    + SumFn([k \in SellsEscrowing(u, a) |->
               sell_orders[k].amount - Dealt(sell_orders[k])])

C33_EscrowAccounting ==
    AtBlockBoundary =>
        \A k \in DOMAIN balances : balances[k].locked = Escrow(k[1], k[2])

(***************************************************************************)
(* C34  Each tx_hash is a key of at most one of buy_orders, sell_orders    *)
(* and history_orders; buy_orders holds only Buy orders and sell_orders    *)
(* only Sell orders; an order in history_orders never changes again and    *)
(* never comes back to a live book.                                        *)
(***************************************************************************)
KeysApart ==
    /\ DOMAIN buy_orders \cap DOMAIN sell_orders = {}
    /\ DOMAIN buy_orders \cap DOMAIN history_orders = {}
    /\ DOMAIN sell_orders \cap DOMAIN history_orders = {}

KindsApart ==
    /\ \A k \in DOMAIN buy_orders : buy_orders[k].kind = "Buy" /\ buy_orders[k].tx_hash = k
    /\ \A k \in DOMAIN sell_orders : sell_orders[k].kind = "Sell" /\ sell_orders[k].tx_hash = k
    /\ \A k \in DOMAIN history_orders : history_orders[k].tx_hash = k

HistoryKept ==
    \A k \in DOMAIN history_orders :
        /\ k \in DOMAIN history_orders'
        /\ history_orders'[k] = history_orders[k]
        /\ k \notin DOMAIN buy_orders' \cup DOMAIN sell_orders'

C34_OneMapPerOrder == [][KeysApart /\ KindsApart /\ KeysApart' /\ KindsApart' /\ HistoryKept]_vars

\* a buy and a sell are on file in history_orders, another order is live, and
\* a hook has run since the first orders were filed
C34_Witness ==
    /\ HookCompleted
    /\ \E k \in DOMAIN history_orders : history_orders[k].kind = "Buy"
    /\ \E k \in DOMAIN history_orders : history_orders[k].kind = "Sell"
    /\ DOMAIN buy_orders \cup DOMAIN sell_orders # {}
    /\ \E k \in DOMAIN history_orders : history_orders[k].height < settles.height

(***************************************************************************)
(* C35  For every order in buy_orders, sell_orders or history_orders the   *)
(* amounts of its deals add up to its dealt amount (0 when Fresh, v when   *)
(* Partial(v), amount when Full), which never exceeds its amount; every    *)
(* deal is recorded, with the same price and amount, in exactly one buy    *)
(* order and one sell order.                                               *)
(***************************************************************************)
AllOrders(books) ==
    {books.buy_orders[k] : k \in DOMAIN books.buy_orders}
    \cup {books.sell_orders[k] : k \in DOMAIN books.sell_orders}
    \cup {books.history_orders[k] : k \in DOMAIN books.history_orders}

DealtInDeals(o) == SumFn([i \in 1..Len(o.deals) |-> o.deals[i].amount])

\* how many times the deal d is recorded in the orders of one kind
Recorded(books, kind, d) ==
    SumFn([o \in {x \in AllOrders(books) : x.kind = kind} |->
             Cardinality({i \in 1..Len(o.deals) : o.deals[i] = d})])

DealsOnRecord(books) == UNION {{o.deals[i] : i \in 1..Len(o.deals)} : o \in AllOrders(books)}

\* the i-th settlement of the last hook added its deal to its two orders and
\* left the deals of every other order alone
DealRecordedOnce(i) ==
    LET a == settles.log[i]
        d == Deal(a.price, a.amount)
        was == AllOrders(BooksBefore(i))
        now == AllOrders(a.books)
    IN  /\ \A o \in was :
              \E n \in now :
                  /\ n.tx_hash = o.tx_hash
                  /\ n.deals = IF o.tx_hash \in {a.buy.tx_hash, a.sell.tx_hash}
                               THEN Append(o.deals, d)
                               ELSE o.deals
        /\ Cardinality(now) = Cardinality(was)
        /\ a.buy.kind = "Buy" /\ a.sell.kind = "Sell"
        /\ a.buy.tx_hash # a.sell.tx_hash
        /\ {a.buy, a.sell} \subseteq was

C35_DealsAddUp ==
    /\ \A o \in AllOrders(Store) : DealtInDeals(o) = Dealt(o) /\ Dealt(o) <= o.amount
    /\ \A d \in DealsOnRecord(Store) :
          Recorded(Store, "Buy", d) = Recorded(Store, "Sell", d)
    /\ \A i \in Deals : DealRecordedOnce(i)

\* an order on file has two deals and one hook made two deals
C35_Witness ==
    /\ HookCompleted
    /\ Cardinality(Deals) >= 2
    /\ \E o \in AllOrders(Store) : Len(o.deals) = 2 /\ o.status = Partial(2)
    /\ \E o \in AllOrders(Store) : Len(o.deals) = 1 /\ o.status = Full

(***************************************************************************)
(* C36  Every deal price p lies between the prices of its two orders,      *)
(* seller.price <= p <= buyer.price, so q * p <= q * buyer.price; and in   *)
(* no state reached through order and the hook does the sub_value of the   *)
(* buyer or the unlock of the seller inside a settlement fail with         *)
(* InsufficientBalance.                                                    *)
(***************************************************************************)
\* the facade calls of the settlement a, in the order the code makes them
SettleCalls(a) ==
    SellerCalls(trades[a.buy.trade_id], a.price, a.amount, a.sell)
    \o BuyerCalls(trades[a.buy.trade_id], a.price, a.amount, a.buy)

CallsFail(a, n) ==
    FacadeCalls(assets, a.before, SubSeq(SettleCalls(a), 1, n), overflow_checks).code # Succeed

\* the calls of the settlement a that answered an error (at most the first one
\* to fail, since the settlement returns there)
FailedCalls(a) ==
    {SettleCalls(a)[n] : n \in {m \in 1..Len(SettleCalls(a)) : CallsFail(a, m) /\ ~CallsFail(a, m - 1)}}

Starved(a) ==
    /\ a.code = AssetErrorCode("InsufficientBalance")
    /\ \E c \in FailedCalls(a) :
          \/ c.op = "unlock" /\ c.user = a.sell.user
                /\ c.asset_id = trades[a.buy.trade_id].counter_party
          \/ c.op = "sub_value" /\ c.user = a.buy.user
                /\ c.asset_id = trades[a.buy.trade_id].base_asset

C36_DealPriceWithinLimits ==
    \A i \in 1..Len(settles.log) :
        /\ settles.log[i].sell.price <= settles.log[i].price
        /\ settles.log[i].price <= settles.log[i].buy.price
        /\ settles.log[i].amount * settles.log[i].price
             <= settles.log[i].amount * settles.log[i].buy.price
        /\ ~Starved(settles.log[i])

(***************************************************************************)
(* C37  The expiry sweep runs before the matching: after the hook for      *)
(* height h no order in buy_orders or sell_orders has expiry < h, no order *)
(* with expiry < h takes part in a settlement of that hook, and an order   *)
(* with expiry = h is still there to be matched at height h: the sweep     *)
(* leaves it in its book and the loop starts from the swept books.         *)
(***************************************************************************)
InForce(m, h) == [k \in {x \in DOMAIN m : m[x].expiry >= h} |-> m[k]]

C37_SweepBeforeMatching ==
    /\ HookCompleted => \A o \in LiveOrders : o.expiry >= settles.height
    /\ HookOnRecord =>
          /\ settles.swept.buy_orders = InForce(settles.pre.buy_orders, settles.height)
          /\ settles.swept.sell_orders = InForce(settles.pre.sell_orders, settles.height)
          /\ \A i \in 1..Len(settles.log) :
                /\ settles.log[i].buy.expiry >= settles.height
                /\ settles.log[i].sell.expiry >= settles.height
                /\ settles.log[i].buy.tx_hash \in DOMAIN settles.swept.buy_orders
                /\ settles.log[i].sell.tx_hash \in DOMAIN settles.swept.sell_orders

\* the hook for height 2 swept an order that expired at height 1 and then made
\* a deal with an order that expires at height 2
C37_Witness ==
    /\ HookCompleted
    /\ settles.height = 2
    /\ DOMAIN settles.swept.buy_orders \cup DOMAIN settles.swept.sell_orders
         # DOMAIN settles.pre.buy_orders \cup DOMAIN settles.pre.sell_orders
    /\ \E i \in Deals : settles.log[i].buy.expiry = 2 \/ settles.log[i].sell.expiry = 2

(***************************************************************************)
(* C38  If the escrow lock of an order fails (the caller's current balance *)
(* is too small, or the asset does not exist), order returns the error of  *)
(* the ledger, inserts no order, emits no Order event and leaves the       *)
(* balances as they were; so every order is, when it is accepted, backed   *)
(* in full by funds it locked: amount * price of the base asset for a Buy, *)
(* amount of the counter-party asset for a Sell.                           *)
(***************************************************************************)
OrderInputs ==
    {[caller |-> c, payload |-> [trade_id |-> t, kind |-> k, price |-> p, amount |-> a,
                                 expiry |-> height + d]] :
        c \in Users, t \in DOMAIN trades, k \in {"Buy", "Sell"}, p \in Prices,
        a \in Amounts, d \in ExpiryOffsets}

\* the answer of the ledger to the escrow lock of the order x
EscrowLock(x) ==
    IF x.payload.kind = "Buy"
    THEN lock_asset(Store, x.caller, trades[x.payload.trade_id].base_asset,
                    Wrap(x.payload.amount * x.payload.price))
    ELSE lock_asset(Store, x.caller, trades[x.payload.trade_id].counter_party,
                    x.payload.amount)

OrderOf(x) ==
    order(Store, overflow_checks, validity,
          [caller |-> x.caller, height |-> height, tx_hash |-> NextTxHash], x.payload)

LockFailures == {AssetErrorCode("InsufficientBalance"), AssetErrorCode("AssetNotExist")}

\* the order x passes the checks that come before the lock
ReachesLock(x) ==
    /\ ~Overdue(x.payload.expiry, height + validity)
    /\ ~(overflow_checks /\ x.payload.kind = "Buy"
          /\ Overflows(x.payload.amount * x.payload.price))

RefusedByLedger(x) ==
    /\ OrderOf(x).code = EscrowLock(x).code
    /\ OrderOf(x).st = Store
    /\ OrderOf(x).events = <<>>

\* what the accepted order of transaction t needs in escrow
EscrowNeeded(t) ==
    IF placed[t].payload.kind = "Buy"
    THEN placed[t].payload.amount * placed[t].payload.price
    ELSE placed[t].payload.amount

EscrowAsset(t) ==
    IF placed[t].payload.kind = "Buy"
    THEN trades[placed[t].payload.trade_id].base_asset
    ELSE trades[placed[t].payload.trade_id].counter_party

BackedWhenAccepted(t) ==
    LET k == <<placed[t].ctx.caller, EscrowAsset(t)>> IN
    /\ placed[t].after[k].locked = placed[t].before[k].locked + EscrowNeeded(t)
    /\ placed[t].after[k].current = placed[t].before[k].current - EscrowNeeded(t)

C38_FailedLockRefusesOrder ==
    /\ \A x \in OrderInputs :
          ReachesLock(x) /\ EscrowLock(x).code \in LockFailures => RefusedByLedger(x)
    /\ \A t \in DOMAIN placed : BackedWhenAccepted(t)

====
